---- MODULE Spec2Model ----
(***************************************************************************)
(* A model of clusterdock/models.py: Cluster, NodeGroup and Node, together *)
(* with the part of the container runtime (networks, containers, images,   *)
(* exec streams, archives) that the three classes call.                    *)
(*                                                                         *)
(* Conventions.  A Python None, and an attribute that has not been set,    *)
(* is the empty sequence <<>>; a value that may be None is a sequence of   *)
(* length 0 or 1.  A name (hostname, network name) is the sequence of its  *)
(* dot-separated labels, so that '{}.{}'.format(a, b) is a \o b.  A dict   *)
(* is a TLA+ function; an OrderedDict is a sequence of <<key, value>>.     *)
(***************************************************************************)
EXTENDS Integers, Sequences, FiniteSets, TLC

(***************************************************************************)
(* Bounds of the model.                                                    *)
(***************************************************************************)
MaxVolumes == 2      \* entries of a node's volumes list
MaxPorts   == 2      \* entries of a node's ports list
MaxNodes   == 3      \* nodes given to a Cluster constructor (grouping)
MaxChunks  == 2      \* chunks of one exec stream
MaxStarts  == 2      \* start calls in one behaviour
MaxPayload == 2      \* characters (bytes) of a file payload
MaxMembers == 2      \* nodes of an execute broadcast
MaxFaults  == 1      \* adverse answers of the runtime in one behaviour

(***************************************************************************)
(* Program constants.                                                      *)
(***************************************************************************)
LOCALTIME_MOUNT      == TRUE
PRIVILEGED_CONTAINER == FALSE
DEFAULT_NETWORK_TYPE == "bridge"
DEFAULT_CREATE_CONTAINER_KWARGS_volumes == <<>>

NoValue == <<>>
Some(x) == <<x>>

Range(s) == {s[i] : i \in DOMAIN s}

SeqsUpTo(S, n) == UNION {[1..k -> S] : k \in 0..n}

\* The hostname alone, the network left out.
FormatFqdn_Bare(hostname, network) == hostname

(***************************************************************************)
(* '{}.{}'.format(hostname, network)                                       *)
(***************************************************************************)
FormatFqdn(hostname, network) == hostname \o network

(***************************************************************************)
(* The values the model draws inputs from.                                 *)
(***************************************************************************)
NetworkNames == {<<"c">>, <<"b", "c">>}
GroupNames   == {"g1", "g2"}
\* Images a pull can fetch.
Pullable     == {"img", "vimg"}

\* A volumes entry: a list (of the names a, b), a dict {a: b}, a str (image
\* a) or a value of another type.
VList(a, b)  == [t |-> "list", a |-> a, b |-> b]
VDict(h, c)  == [t |-> "dict", a |-> h, b |-> c]
VStr(img)    == [t |-> "str",  a |-> img, b |-> ""]
VInt         == [t |-> "int",  a |-> "5", b |-> ""]
VolumeEntries ==
  {VList("vol1", ""), VDict("/host", "/cont"), VStr("vimg"), VInt}

\* A ports entry: an int c, a bool (an int in Python), a dict {h: c}, or a
\* value of another type.
PInt(c)      == [t |-> "int",  h |-> 0, c |-> c]
PBool        == [t |-> "bool", h |-> 0, c |-> 1]
PDict(h, c)  == [t |-> "dict", h |-> h, c |-> c]
PStr         == [t |-> "str",  h |-> 0, c |-> 0]
PortEntries  == {PInt(8080), PDict(9000, 8080), PDict(9001, 22), PBool, PStr}

\* pre_start_callback values: None, a function that returns, a function that
\* raises, a value that is not callable and truthy, one that is falsy.
Callbacks == {"None", "returns", "raises", "noncallable", "falsy"}

NodeIds    == 1..4
ClusterIds == 1..2

VARIABLES
  \* ---- the container runtime
  networks,      \* sequence of [name, driver, label]
  containers,    \* sequence of container records; the id is the index
  images,        \* the images present locally
  etc_hosts,     \* the lines appended to the host's /etc/hosts
  hostenv,       \* the orchestrating host: [darwin, in_docker]
  faults,        \* the adverse answers the runtime has given so far
  \* ---- Node objects
  node,          \* desired state: [hostname, group, image, ports, volumes]
  NodeClass,     \* the class attributes of Node: the default kwargs
  nrt,           \* runtime-state attributes: fqdn, container, ip_address, host_ports
  nst,           \* the frame of the node's start call
  \* ---- Cluster objects
  cluster,       \* [pc, name, nodes, node_groups, network, ...]
  \* ---- Node.execute / Cluster.execute / NodeGroup.execute
  ex,
  \* ---- Node.put_file / Node.get_file
  fs

rtvars == <<networks, containers, images, etc_hosts, hostenv, faults>>
ndvars == <<node, NodeClass, nrt, nst>>
vars   == <<networks, containers, images, etc_hosts, hostenv, faults, node,
            NodeClass, nrt, nst, cluster, ex, fs>>

(***************************************************************************)
(* The container runtime, as far as models.py calls it.                    *)
(***************************************************************************)
EmptyDict == [x \in {} |-> x]

\* dict[key] = value
DictSet(d, key, value) == (key :> value) @@ d

\* d.update(other)
DictUpdate(d, other) == other @@ d

ContainerRecord(kind, image, hostname, network, aliases, labels, cfg) ==
  [kind          |-> kind,
   image         |-> image,
   hostname      |-> hostname,
   network       |-> network,
   aliases       |-> aliases,
   labels        |-> labels,
   volumes       |-> cfg.volumes,
   binds         |-> cfg.binds,
   volumes_from  |-> cfg.volumes_from,
   ports         |-> cfg.ports,
   port_bindings |-> cfg.port_bindings,
   privileged    |-> cfg.privileged,
   state         |-> "created"]

NoConfig ==
  [volumes |-> <<>>, binds |-> EmptyDict, volumes_from |-> <<>>,
   ports |-> <<>>, port_bindings |-> EmptyDict, privileged |-> FALSE]

\* The label every clusterdock resource is meant to carry:
\* {DEFAULT_DOCKER_LABEL_KEY: get_clusterdock_label(cluster_name)}.
ClusterdockLabels(cluster_name) == Some(cluster_name)

\* client.api.inspect_image(image): the outcomes the runtime can give.  An
\* image that is present is found; one that is absent gives NotFound(404,
\* 'No such image'); the daemon may also answer NotFound with another
\* explanation, or fail with another APIError.
InspectOutcomes(image) ==
  (IF image \in images THEN {"ok"} ELSE {"no_such_image"})
    \cup {"not_found_other", "api_error"}

\* With pull_images the image is not inspected.
ImageAnswers(image, pull_images) ==
  IF pull_images THEN {"not inspected"} ELSE InspectOutcomes(image)

\* The answer of the inspect_image call that lines 322-328 and 387-393 are
\* acting on: None when the image was not inspected.
Inspected(image, pull_images, outcome) ==
  IF pull_images THEN NoValue
  ELSE Some([image |-> image, outcome |-> outcome])

\* The adverse answers are bounded: MaxFaults of them in one behaviour.
Adverse(outcome) ==
  outcome \in {"not_found_other", "api_error", "APIError", "exited",
               "down", "server error"}

Answer(outcome) ==
  /\ Adverse(outcome) => faults < MaxFaults
  /\ faults' = IF Adverse(outcome) THEN faults + 1 ELSE faults

(***************************************************************************)
(* Lines 314-328 and 379-393: make the image present.  With pull_images  *)
(* the image is pulled; otherwise it is inspected and pulled only on      *)
(* NotFound(404, 'No such image').  A NotFound of another kind is caught  *)
(* and not raised again; any other exception propagates.  The result is   *)
(* the runtime calls made, the images then present and the error raised.  *)
(***************************************************************************)
PullResult(image, calls) ==
  IF image \in Pullable
    THEN [calls |-> Append(calls, "pull"), images |-> images \cup {image},
          error |-> ""]
    ELSE [calls |-> Append(calls, "pull"), images |-> images,
          error |-> "ImageNotFound"]

EnsureImage(image, pull_images, outcome) ==
  IF pull_images
    THEN PullResult(image, <<>>)
    ELSE CASE outcome = "ok" ->
                [calls |-> <<"inspect_image">>, images |-> images, error |-> ""]
           [] outcome = "no_such_image" ->
                PullResult(image, <<"inspect_image">>)
           [] outcome = "not_found_other" ->
                [calls |-> <<"inspect_image">>, images |-> images, error |-> ""]
           [] OTHER ->
                [calls |-> <<"inspect_image">>, images |-> images,
                 error |-> "APIError"]

(***************************************************************************)
(* Node.start, lines 257-465, one action per step of the method.           *)
(***************************************************************************)
NodeFail(n, error, calls) ==
  nst' = [nst EXCEPT ![n].pc = "failed", ![n].error = error,
                     ![n].calls = @ \o calls]

\* The start without the deep copy of line 273: the volumes list of the
\* container kwargs is the list of the class default, and the append of
\* line 281 is made on it.
NodeStartBegin_SharedDefaults(n, network, cluster_name, pull_images, callback) ==
  /\ nst[n].pc \in {"idle", "established", "failed"}
  /\ nst[n].starts < MaxStarts
  /\ nrt' = [nrt EXCEPT ![n].fqdn = FormatFqdn(node[n].hostname, network)]
  /\ nst' = [nst EXCEPT ![n] =
       [pc            |-> "volumes",
        error         |-> "",
        starts        |-> nst[n].starts + 1,
        network       |-> network,
        cluster_name  |-> cluster_name,
        pull_images   |-> pull_images,
        callback      |-> callback,
        labels        |-> ClusterdockLabels(cluster_name),
        hc_binds      |-> IF LOCALTIME_MOUNT
                            THEN DictSet(EmptyDict, "/cfg/localtime", "/etc/localtime")
                            ELSE EmptyDict,
        hc_volumes_from |-> <<>>,
        hc_privileged |-> PRIVILEGED_CONTAINER,
        cc_volumes    |-> IF LOCALTIME_MOUNT
                            THEN Append(
                              NodeClass.DEFAULT_CREATE_CONTAINER_KWARGS.volumes,
                              "/etc/localtime")
                            ELSE NodeClass.DEFAULT_CREATE_CONTAINER_KWARGS.volumes,
        vi            |-> 1,
        binds         |-> EmptyDict,
        volumes       |-> <<>>,
        volumes_from  |-> <<>>,
        ports         |-> <<>>,
        port_bindings |-> EmptyDict,
        container_id  |-> 0,
        cb_calls      |-> <<>>,
        inspected     |-> NoValue,
        which_sshd    |-> NoValue,
        sshd_status   |-> NoValue,
        calls         |-> <<>>]]
  /\ NodeClass' = [NodeClass EXCEPT
       !.DEFAULT_CREATE_CONTAINER_KWARGS.volumes =
          IF LOCALTIME_MOUNT THEN Append(@, "/etc/localtime") ELSE @]
  /\ UNCHANGED <<node, rtvars>>

\* Lines 269-289: the fqdn, the deep copies of the class defaults, the
\* localtime bind and volume, the labels.
NodeStartBegin(n, network, cluster_name, pull_images, callback) ==
  /\ nst[n].pc \in {"idle", "established", "failed"}
  /\ nst[n].starts < MaxStarts
  /\ nrt' = [nrt EXCEPT ![n].fqdn = FormatFqdn(node[n].hostname, network)]
  /\ nst' = [nst EXCEPT ![n] =
       [pc            |-> "volumes",
        error         |-> "",
        starts        |-> nst[n].starts + 1,
        network       |-> network,
        cluster_name  |-> cluster_name,
        pull_images   |-> pull_images,
        callback      |-> callback,
        labels        |-> ClusterdockLabels(cluster_name),
        hc_binds      |-> IF LOCALTIME_MOUNT
                            THEN DictSet(EmptyDict, "/cfg/localtime", "/etc/localtime")
                            ELSE EmptyDict,
        hc_volumes_from |-> <<>>,
        hc_privileged |-> PRIVILEGED_CONTAINER,
        cc_volumes    |-> IF LOCALTIME_MOUNT
                            THEN Append(
                              NodeClass.DEFAULT_CREATE_CONTAINER_KWARGS.volumes,
                              "/etc/localtime")
                            ELSE NodeClass.DEFAULT_CREATE_CONTAINER_KWARGS.volumes,
        vi            |-> 1,
        binds         |-> EmptyDict,
        volumes       |-> <<>>,
        volumes_from  |-> <<>>,
        ports         |-> <<>>,
        port_bindings |-> EmptyDict,
        container_id  |-> 0,
        cb_calls      |-> <<>>,
        inspected     |-> NoValue,
        which_sshd    |-> NoValue,
        sshd_status   |-> NoValue,
        calls         |-> <<>>]]
  /\ UNCHANGED <<node, NodeClass, rtvars>>

ListItems(e) ==
  IF e.a = "" THEN <<>> ELSE IF e.b = "" THEN <<e.a>> ELSE <<e.a, e.b>>

\* Lines 301-334: one iteration of the loop over self.volumes.
NodeVolume(n) ==
  /\ nst[n].pc = "volumes"
  /\ nst[n].vi <= Len(node[n].volumes)
  /\ LET volume == node[n].volumes[nst[n].vi] IN
       CASE volume.t = "list" ->
              /\ nst' = [nst EXCEPT ![n].volumes = @ \o ListItems(volume),
                                    ![n].vi = @ + 1]
              /\ UNCHANGED <<images, faults>>
         [] volume.t = "dict" ->
              /\ nst' = [nst EXCEPT
                   ![n].binds = DictSet(@, volume.a, volume.b),
                   ![n].volumes = Append(@, volume.b),
                   ![n].vi = @ + 1]
              /\ UNCHANGED <<images, faults>>
         [] volume.t = "str" ->
              \E outcome \in ImageAnswers(volume.a, nst[n].pull_images) :
                LET r == EnsureImage(volume.a, nst[n].pull_images, outcome)
                    seen == Inspected(volume.a, nst[n].pull_images, outcome)
                IN
                  /\ Answer(outcome)
                  /\ images' = r.images
                  /\ IF r.error = ""
                       THEN nst' = [nst EXCEPT ![n].pc = "volume_create",
                                               ![n].inspected = seen,
                                               ![n].calls = @ \o r.calls]
                       ELSE nst' = [nst EXCEPT ![n].pc = "failed",
                                               ![n].error = r.error,
                                               ![n].inspected = seen,
                                               ![n].calls = @ \o r.calls]
         [] OTHER ->
              /\ NodeFail(n, "TypeError", <<>>)
              /\ UNCHANGED <<images, faults>>
  /\ UNCHANGED <<cluster, ex, fs, node, NodeClass, nrt, networks, containers, etc_hosts, hostenv>>

\* The disposable container created without the labels.
NodeVolumeCreate_Unlabelled(n) ==
  /\ nst[n].pc = "volume_create"
  /\ LET volume == node[n].volumes[nst[n].vi] IN
       IF volume.a \in images
         THEN /\ containers' = Append(containers,
                   ContainerRecord("volumes_from", volume.a, <<>>, <<>>, <<>>,
                                   <<>>, NoConfig))
              /\ nst' = [nst EXCEPT
                   ![n].volumes_from = Append(@, Len(containers) + 1),
                   ![n].calls = Append(@, "create"),
                   ![n].vi = @ + 1,
                   ![n].inspected = NoValue,
                   ![n].pc = "volumes"]
         ELSE /\ NodeFail(n, "ImageNotFound", <<"create">>)
              /\ UNCHANGED containers
  /\ UNCHANGED <<cluster, ex, fs, node, NodeClass, nrt, networks, images, etc_hosts, hostenv, faults>>

\* Lines 330-331: the disposable container of a volumes-from image.
NodeVolumeCreate(n) ==
  /\ nst[n].pc = "volume_create"
  /\ LET volume == node[n].volumes[nst[n].vi] IN
       IF volume.a \in images
         THEN /\ containers' = Append(containers,
                   ContainerRecord("volumes_from", volume.a, <<>>, <<>>, <<>>,
                                   nst[n].labels, NoConfig))
              /\ nst' = [nst EXCEPT
                   ![n].volumes_from = Append(@, Len(containers) + 1),
                   ![n].calls = Append(@, "create"),
                   ![n].vi = @ + 1,
                   ![n].inspected = NoValue,
                   ![n].pc = "volumes"]
         ELSE /\ NodeFail(n, "ImageNotFound", <<"create">>)
              /\ UNCHANGED containers
  /\ UNCHANGED <<cluster, ex, fs, node, NodeClass, nrt, networks, images, etc_hosts, hostenv, faults>>

\* The loop with host port and container port exchanged.
RECURSIVE ResolvePorts_Swapped(_, _, _)
ResolvePorts_Swapped(entries, ports, port_bindings) ==
  IF entries = <<>>
    THEN [error |-> "", ports |-> ports, port_bindings |-> port_bindings]
    ELSE LET port == Head(entries) IN
      IF port.t = "dict"
        THEN ResolvePorts_Swapped(Tail(entries), Append(ports, port.h),
                          DictSet(port_bindings, port.h, Some(port.c)))
      ELSE IF port.t \in {"int", "bool"}
        THEN ResolvePorts_Swapped(Tail(entries), Append(ports, port.c),
                          DictSet(port_bindings, port.c, NoValue))
      ELSE [error |-> "TypeError", ports |-> ports,
            port_bindings |-> port_bindings]

\* Lines 343-357: the loop over self.ports.
RECURSIVE ResolvePorts(_, _, _)
ResolvePorts(entries, ports, port_bindings) ==
  IF entries = <<>>
    THEN [error |-> "", ports |-> ports, port_bindings |-> port_bindings]
    ELSE LET port == Head(entries) IN
      IF port.t = "dict"
        THEN ResolvePorts(Tail(entries), Append(ports, port.c),
                          DictSet(port_bindings, port.c, Some(port.h)))
      ELSE IF port.t \in {"int", "bool"}
        THEN ResolvePorts(Tail(entries), Append(ports, port.c),
                          DictSet(port_bindings, port.c, NoValue))
      ELSE [error |-> "TypeError", ports |-> ports,
            port_bindings |-> port_bindings]

\* Lines 336-370: after the volumes loop, the volumes_from and binds of the
\* host config, the volumes of the container config, then the ports.
NodePorts(n) ==
  /\ nst[n].pc = "volumes"
  /\ nst[n].vi > Len(node[n].volumes)
  /\ LET r == ResolvePorts(node[n].ports, <<>>, EmptyDict)
         merged == [nst EXCEPT
           ![n].hc_volumes_from = nst[n].volumes_from,
           ![n].hc_binds = IF nst[n].volumes # <<>>
                             THEN DictUpdate(@, nst[n].binds) ELSE @,
           ![n].cc_volumes = @ \o nst[n].volumes]
     IN IF r.error = ""
          THEN nst' = [merged EXCEPT ![n].ports = r.ports,
                                     ![n].port_bindings = r.port_bindings,
                                     ![n].pc = "image"]
          ELSE nst' = [merged EXCEPT ![n].pc = "failed",
                                     ![n].error = r.error]
  /\ UNCHANGED <<cluster, ex, fs, node, NodeClass, nrt, rtvars>>

\* Lines 378-393: the node's own image.
NodeImage(n) ==
  /\ nst[n].pc = "image"
  /\ \E outcome \in ImageAnswers(node[n].image, nst[n].pull_images) :
       LET r == EnsureImage(node[n].image, nst[n].pull_images, outcome)
           seen == Inspected(node[n].image, nst[n].pull_images, outcome)
       IN
         /\ Answer(outcome)
         /\ images' = r.images
         /\ IF r.error = ""
              THEN nst' = [nst EXCEPT ![n].pc = "create",
                                      ![n].inspected = seen,
                                      ![n].calls = @ \o r.calls]
              ELSE nst' = [nst EXCEPT ![n].pc = "failed",
                                      ![n].error = r.error,
                                      ![n].inspected = seen,
                                      ![n].calls = @ \o r.calls]
  /\ UNCHANGED <<cluster, ex, fs, node, NodeClass, nrt, networks, containers, etc_hosts, hostenv>>

\* Lines 397-401: client.api.create_container, attached to the network under
\* the alias hostname.
NodeCreate(n) ==
  /\ nst[n].pc = "create"
  /\ IF node[n].image \in images
       THEN /\ containers' = Append(containers,
                 ContainerRecord("node", node[n].image, nrt[n].fqdn,
                   nst[n].network, <<node[n].hostname>>, nst[n].labels,
                   [volumes       |-> nst[n].cc_volumes,
                    binds         |-> nst[n].hc_binds,
                    volumes_from  |-> nst[n].hc_volumes_from,
                    ports         |-> nst[n].ports,
                    port_bindings |-> nst[n].port_bindings,
                    privileged    |-> nst[n].hc_privileged]))
            /\ nst' = [nst EXCEPT ![n].container_id = Len(containers) + 1,
                                  ![n].calls = Append(@, "create_container"),
                                  ![n].inspected = NoValue,
                                  ![n].pc = "callback"]
       ELSE /\ NodeFail(n, "ImageNotFound", <<"create_container">>)
            /\ UNCHANGED containers
  /\ UNCHANGED <<cluster, ex, fs, node, NodeClass, nrt, networks, images, etc_hosts, hostenv, faults>>

\* The callback left out: the start request follows the creation at once.
NodeCallback_Skipped(n) ==
  /\ nst[n].pc = "callback"
  /\ LET cb == nst[n].callback IN
       IF cb = "noncallable"
         THEN NodeFail(n, "TypeError", <<>>)
         ELSE nst' = [nst EXCEPT ![n].pc = "start"]
  /\ UNCHANGED <<cluster, ex, fs, node, NodeClass, nrt, rtvars>>

\* Lines 403-407: the pre_start_callback.  A callback is None, a callable
\* (functions, lambdas, bound methods and partials are true values) that
\* returns or raises, or a value that is not callable, true or false.
NodeCallback(n) ==
  /\ nst[n].pc = "callback"
  /\ LET cb == nst[n].callback IN
       IF cb \in {"None", "falsy"}
         THEN nst' = [nst EXCEPT ![n].pc = "start"]
       ELSE IF cb = "noncallable"
         THEN NodeFail(n, "TypeError", <<>>)
       ELSE IF cb = "raises"
         THEN nst' = [nst EXCEPT
                ![n].cb_calls = Append(@, <<nst[n].container_id, n>>),
                ![n].pc = "failed", ![n].error = "CallbackError"]
       ELSE nst' = [nst EXCEPT
                ![n].cb_calls = Append(@, <<nst[n].container_id, n>>),
                ![n].pc = "start"]
  /\ UNCHANGED <<cluster, ex, fs, node, NodeClass, nrt, rtvars>>

SetContainerState(id, state) == [containers EXCEPT ![id].state = state]

\* Lines 409-413: client.api.start, then self.container.  The started
\* container is running, or has exited at once; the start request can also
\* be refused by the runtime.
NodeDockerStart(n) ==
  /\ nst[n].pc = "start"
  /\ \E outcome \in {"running", "exited", "APIError"} :
       /\ Answer(outcome)
       /\ IF outcome = "APIError"
            THEN /\ NodeFail(n, "APIError", <<"start">>)
                 /\ UNCHANGED <<containers, nrt>>
            ELSE /\ containers' = SetContainerState(nst[n].container_id, outcome)
                 /\ nrt' = [nrt EXCEPT ![n].container = Some(nst[n].container_id)]
                 /\ nst' = [nst EXCEPT ![n].calls = Append(@, "start"),
                                       ![n].pc = "wait_running"]
  /\ UNCHANGED <<cluster, ex, fs, node, NodeClass, networks, images, etc_hosts, hostenv>>

\* utils.wait_for_condition: returns when the condition holds within the
\* timeout, raises TimeoutError otherwise.
WaitForCondition(condition) == IF condition THEN "" ELSE "TimeoutError"

\* NetworkSettings.Ports as the runtime reports it: the host port of every
\* bound container port, the runtime's choice where none was given.
AssignedHostPort(binding, container_port) ==
  IF binding = NoValue THEN 32768 + container_port ELSE binding[1]

\* The wait with its timeout ignored: the start carries on.
NodeWaitRunning_Ignored(n) ==
  /\ nst[n].pc = "wait_running"
  /\ LET id == nst[n].container_id IN
       /\ nrt' = [nrt EXCEPT
            ![n].ip_address = Some(id),
            ![n].host_ports =
              Some([p \in DOMAIN containers[id].port_bindings |->
                 AssignedHostPort(containers[id].port_bindings[p], p)])]
       /\ nst' = [nst EXCEPT ![n].pc = "sshd_probe"]
  /\ UNCHANGED <<cluster, ex, fs, node, NodeClass, rtvars>>

\* Lines 419-447: the wait for Running, the reload, ip_address, host_ports.
NodeWaitRunning(n) ==
  /\ nst[n].pc = "wait_running"
  /\ LET id == nst[n].container_id
         r == WaitForCondition(containers[id].state = "running")
     IN IF r = ""
          THEN /\ nrt' = [nrt EXCEPT
                    ![n].ip_address = Some(id),
                    ![n].host_ports =
                      Some([p \in DOMAIN containers[id].port_bindings |->
                         AssignedHostPort(containers[id].port_bindings[p], p)])]
               /\ nst' = [nst EXCEPT ![n].pc = "sshd_probe"]
          ELSE /\ NodeFail(n, r, <<>>)
               /\ UNCHANGED nrt
  /\ UNCHANGED <<cluster, ex, fs, node, NodeClass, rtvars>>

\* The probe with its test inverted: the wait is made when sshd is absent.
NodeSshdProbe_Inverted(n) ==
  /\ nst[n].pc = "sshd_probe"
  /\ \E exit_code \in {0, 1} :
       nst' = [nst EXCEPT ![n].pc = IF exit_code # 0 THEN "wait_sshd"
                                                     ELSE "etc_hosts",
                          ![n].which_sshd = Some(exit_code),
                          ![n].calls = Append(@, "exec")]
  /\ UNCHANGED <<cluster, ex, fs, node, NodeClass, nrt, rtvars>>

\* Line 450: self.execute('which sshd', quiet=True).exit_code == 0
NodeSshdProbe(n) ==
  /\ nst[n].pc = "sshd_probe"
  /\ \E exit_code \in {0, 1} :
       nst' = [nst EXCEPT ![n].pc = IF exit_code = 0 THEN "wait_sshd"
                                                     ELSE "etc_hosts",
                          ![n].which_sshd = Some(exit_code),
                          ![n].calls = Append(@, "exec")]
  /\ UNCHANGED <<cluster, ex, fs, node, NodeClass, nrt, rtvars>>

\* Lines 451-461: the wait for 'service sshd status' to return 0.
NodeWaitSshd(n) ==
  /\ nst[n].pc = "wait_sshd"
  /\ \E sshd \in {"up", "down"} :
       LET r == WaitForCondition(sshd = "up") IN
         /\ Answer(sshd)
         /\ IF r = ""
              THEN nst' = [nst EXCEPT ![n].pc = "etc_hosts",
                                      ![n].sshd_status = Some(0),
                                      ![n].calls = Append(@, "exec")]
              ELSE nst' = [nst EXCEPT ![n].pc = "failed", ![n].error = r,
                                      ![n].sshd_status = Some(3),
                                      ![n].calls = Append(@, "exec")]
  /\ UNCHANGED <<cluster, ex, fs, node, NodeClass, nrt, networks, containers, images, etc_hosts, hostenv>>

\* Lines 578-590: the helper container that appends to /etc/hosts; it is
\* run without labels and removed when it has run.
AddNodeToEtcHosts(n) ==
  /\ etc_hosts' = Append(etc_hosts, <<nrt[n].ip_address, nrt[n].fqdn>>)
  /\ containers' = Append(containers,
       [ContainerRecord("etc_hosts", "alpine:latest", <<>>, <<>>, <<>>, <<>>,
                        NoConfig) EXCEPT !.state = "removed"])

\* Lines 463-465: the last step of start.
NodeEtcHosts(n) ==
  /\ nst[n].pc = "etc_hosts"
  /\ IF ~hostenv.darwin /\ ~hostenv.in_docker
       THEN /\ AddNodeToEtcHosts(n)
            /\ nst' = [nst EXCEPT ![n].pc = "established",
                                  ![n].calls = Append(@, "run")]
       ELSE /\ nst' = [nst EXCEPT ![n].pc = "established"]
            /\ UNCHANGED <<etc_hosts, containers>>
  /\ UNCHANGED <<cluster, ex, fs, node, NodeClass, nrt, networks, images, hostenv, faults>>

\* Any step of a start call that is under way.
NodeStep(n) ==
  \/ NodeVolume(n)
  \/ NodeVolumeCreate(n)
  \/ NodePorts(n)
  \/ NodeImage(n)
  \/ NodeCreate(n)
  \/ NodeCallback(n)
  \/ NodeDockerStart(n)
  \/ NodeWaitRunning(n)
  \/ NodeSshdProbe(n)
  \/ NodeWaitSshd(n)
  \/ NodeEtcHosts(n)

NodeStarting(n) == nst[n].pc \notin {"idle", "established", "failed"}

\* Lines 467-476: Node.stop.
NodeStop(n, remove) ==
  /\ nst[n].pc = "established"
  /\ nrt[n].container # NoValue
  /\ containers[nrt[n].container[1]].state \in {"running", "exited"}
  /\ containers' = SetContainerState(nrt[n].container[1],
                     IF remove THEN "removed" ELSE "exited")
  /\ UNCHANGED <<cluster, ex, fs, node, NodeClass, nrt, nst, networks, images, etc_hosts, hostenv, faults>>

(***************************************************************************)
(* NodeGroup and Cluster, lines 44-198.                                    *)
(***************************************************************************)
\* NodeGroup.__init__, lines 173-178.
NodeGroupInit(name, nodes) == [name |-> name, nodes |-> nodes]

GroupIndex(node_groups, name) ==
  IF \E i \in DOMAIN node_groups : node_groups[i].name = name
    THEN CHOOSE i \in DOMAIN node_groups : node_groups[i].name = name
    ELSE 0

\* The loop with a node put at the head of its group's list.
RECURSIVE GroupNodes_Prepend(_, _)
GroupNodes_Prepend(nodes, node_groups) ==
  IF nodes = <<>>
    THEN node_groups
    ELSE LET nd == Head(nodes)
             i  == GroupIndex(node_groups, node[nd].group)
         IN GroupNodes_Prepend(Tail(nodes),
              IF i = 0
                THEN Append(node_groups, NodeGroupInit(node[nd].group, <<nd>>))
                ELSE [node_groups EXCEPT ![i].nodes = <<nd>> \o @])

\* Lines 72-84: the loop that partitions self.nodes into self.node_groups.
RECURSIVE GroupNodes(_, _)
GroupNodes(nodes, node_groups) ==
  IF nodes = <<>>
    THEN node_groups
    ELSE LET nd == Head(nodes)
             i  == GroupIndex(node_groups, node[nd].group)
         IN GroupNodes(Tail(nodes),
              IF i = 0
                THEN Append(node_groups, NodeGroupInit(node[nd].group, <<nd>>))
                ELSE [node_groups EXCEPT ![i].nodes = Append(@, nd)])

\* utils.get_containers(clusterdock=True): the containers that exist and
\* carry the management label; container.cluster_name is the label's value.
GetContainers ==
  {i \in DOMAIN containers :
     containers[i].state # "removed" /\ containers[i].labels # <<>>}

ActiveClusterNames == {containers[i].labels[1] : i \in GetContainers}

\* utils.generate_cluster_name(): a fresh name for each cluster.
GenerateClusterName(c) == IF c = 1 THEN "gen1" ELSE "gen2"

\* Cluster.__init__ with the test of line 57 left out.
ClusterInit_NoCheck(c, nodes, cluster_name) ==
  /\ cluster[c].pc = "new"
  /\ cluster' = [cluster EXCEPT
       ![c].pc = "constructed", ![c].nodes = nodes,
       ![c].requested = cluster_name,
       ![c].name = IF cluster_name # NoValue THEN cluster_name[1]
                                             ELSE GenerateClusterName(c),
       ![c].node_groups = GroupNodes(nodes, <<>>)]
  /\ UNCHANGED <<rtvars, ndvars, ex, fs>>

\* Cluster.__init__, lines 52-84.  cluster_name is the value of
\* clusterdock_args.cluster_name (None when no name was requested);
\* clusterdock_args.port is not set.
ClusterInit(c, nodes, cluster_name) ==
  /\ cluster[c].pc = "new"
  /\ IF cluster_name # NoValue
       THEN IF cluster_name[1] \in ActiveClusterNames
              THEN cluster' = [cluster EXCEPT
                     ![c].pc = "raised", ![c].nodes = nodes,
                     ![c].requested = cluster_name,
                     ![c].error = "DuplicateClusterNameError"]
              ELSE cluster' = [cluster EXCEPT
                     ![c].pc = "constructed", ![c].nodes = nodes,
                     ![c].requested = cluster_name,
                     ![c].name = cluster_name[1],
                     ![c].node_groups = GroupNodes(nodes, <<>>)]
       ELSE cluster' = [cluster EXCEPT
                     ![c].pc = "constructed", ![c].nodes = nodes,
                     ![c].name = GenerateClusterName(c),
                     ![c].node_groups = GroupNodes(nodes, <<>>)]
  /\ UNCHANGED <<rtvars, ndvars, ex, fs>>

NetworkExists(name) == \E i \in DOMAIN networks : networks[i].name = name

AlreadyExists(name) == <<"network with name", name, "already exists">>

\* client.networks.create(name, driver, check_duplicate, labels): the new
\* list of networks and the explanation of the APIError raised (<<>> when
\* none is).  fault is an error of the daemon's own.
NetworksCreate(name, driver, check_duplicate, labels, fault) ==
  IF fault = "server error"
    THEN [networks |-> networks, explanation |-> <<"server error">>]
  ELSE IF check_duplicate /\ NetworkExists(name)
    THEN [networks |-> networks, explanation |-> AlreadyExists(name)]
  ELSE [networks |-> Append(networks,
                      [name |-> name, driver |-> driver, labels |-> labels]),
        explanation |-> <<>>]

\* network.containers: the containers attached to the network.
NetworkContainers(name) ==
  SelectSeq([i \in DOMAIN containers |-> i],
            LAMBDA i : containers[i].network = name
                       /\ containers[i].state # "removed")

\* _setup_network with check_duplicate=False.
SetupNetwork_NoDuplicateCheck(self_name, name, fault) ==
  LET r == NetworksCreate(name, DEFAULT_NETWORK_TYPE, FALSE,
                          ClusterdockLabels(self_name), fault)
  IN IF r.explanation = <<>>
       THEN [networks |-> r.networks, error |-> "", explanation |-> <<>>,
             fetched |-> FALSE,
             network |-> Some([name |-> name, containers |-> <<>>])]
       ELSE [networks |-> r.networks, error |-> "APIError",
             explanation |-> r.explanation, fetched |-> FALSE,
             network |-> NoValue]

\* _setup_network falling back to client.networks.get on every APIError:
\* the handle of the network if there is one of that name, NotFound if not.
SetupNetwork_FetchOnAnyError(self_name, name, fault) ==
  LET r == NetworksCreate(name, DEFAULT_NETWORK_TYPE, TRUE,
                          ClusterdockLabels(self_name), fault)
  IN IF r.explanation = <<>>
       THEN [networks |-> r.networks, error |-> "", explanation |-> <<>>,
             fetched |-> FALSE,
             network |-> Some([name |-> name, containers |-> <<>>])]
     ELSE IF NetworkExists(name)
       THEN [networks |-> r.networks, error |-> "", explanation |-> <<>>,
             fetched |-> TRUE,
             network |-> Some([name |-> name,
                               containers |-> NetworkContainers(name)])]
     ELSE [networks |-> r.networks, error |-> "NotFound",
           explanation |-> <<"network", name, "not found">>,
           fetched |-> TRUE, network |-> NoValue]

\* Cluster._setup_network, lines 146-161: the networks afterwards, the
\* handle returned (the network's name and the containers attached to it),
\* the error raised and whether client.networks.get was called.
SetupNetwork(self_name, name, fault) ==
  LET r == NetworksCreate(name, DEFAULT_NETWORK_TYPE, TRUE,
                          ClusterdockLabels(self_name), fault)
  IN IF r.explanation = <<>>
       THEN [networks |-> r.networks, error |-> "", explanation |-> <<>>,
             fetched |-> FALSE,
             network |-> Some([name |-> name, containers |-> <<>>])]
     ELSE IF r.explanation = AlreadyExists(name)
       THEN [networks |-> r.networks, error |-> "", explanation |-> <<>>,
             fetched |-> TRUE,
             network |-> Some([name |-> name,
                               containers |-> NetworkContainers(name)])]
     ELSE [networks |-> r.networks, error |-> "APIError",
           explanation |-> r.explanation, fetched |-> FALSE,
           network |-> NoValue]

RECURSIVE SumStarts(_)
SumStarts(S) ==
  IF S = {} THEN 0
  ELSE LET c == CHOOSE x \in S : TRUE
       IN cluster[c].starts + SumStarts(S \ {c})

ClusterStarts == SumStarts(ClusterIds)

ClusterBusy(c) == cluster[c].pc \in {"check", "nodes", "in_node"}

\* Cluster.start, lines 99-101: self.network and the network setup.
ClusterStart(c, network, pull_images, update_etc_hosts, pre_start_callback) ==
  /\ cluster[c].pc \in {"constructed", "done", "failed"}
  /\ ClusterStarts < MaxStarts
  /\ \E fault \in {"none", "server error"} :
       LET r == SetupNetwork(cluster[c].name, network, fault) IN
         /\ Answer(fault)
         /\ networks' = r.networks
         /\ cluster' = [cluster EXCEPT
              ![c].starts = @ + 1,
              ![c].network = Some(network),
              ![c].the_network = r.network,
              ![c].fetched = r.fetched,
              ![c].pull_images = pull_images,
              ![c].update_etc_hosts = update_etc_hosts,
              ![c].pre_start_callback = pre_start_callback,
              ![c].idx = 0,
              ![c].error = r.error,
              ![c].explanation = r.explanation,
              ![c].pc = IF r.error = "" THEN "check" ELSE "failed"]
  /\ UNCHANGED <<containers, images, etc_hosts, hostenv, ndvars, ex, fs>>

\* nested_get(container.attrs,
\*            ['NetworkSettings', 'Networks', network, 'Aliases', 0])
FirstAlias(id) == containers[id].aliases[1]

NodeHostnames(c) == {node[n].hostname : n \in Range(cluster[c].nodes)}

\* The check with the aliases compared to the nodes' FQDNs.
DuplicateHostnames_Fqdn(c) ==
  IF Len(cluster[c].the_network[1].containers) # 0
    THEN {FirstAlias(id) : id \in Range(cluster[c].the_network[1].containers)}
           \cap {FormatFqdn(h, cluster[c].network[1]) : h \in NodeHostnames(c)}
    ELSE {}

\* Lines 103-120: the duplicate-hostname check.
DuplicateHostnames(c) ==
  IF Len(cluster[c].the_network[1].containers) # 0
    THEN {FirstAlias(id) : id \in Range(cluster[c].the_network[1].containers)}
           \cap NodeHostnames(c)
    ELSE {}

\* The check made on the containers attached at the time of the check (the
\* network reloaded) instead of those read at the network setup.
ClusterCheck_Reloaded(c) ==
  /\ cluster[c].pc = "check"
  /\ IF \E id \in Range(NetworkContainers(cluster[c].network[1])) :
          FirstAlias(id) \in NodeHostnames(c)
       THEN cluster' = [cluster EXCEPT ![c].pc = "failed",
                          ![c].error = "DuplicateHostnamesError"]
       ELSE cluster' = [cluster EXCEPT ![c].pc = "nodes", ![c].idx = 1]
  /\ UNCHANGED <<rtvars, ndvars, ex, fs>>

ClusterCheck(c) ==
  /\ cluster[c].pc = "check"
  /\ IF DuplicateHostnames(c) # {}
       THEN cluster' = [cluster EXCEPT ![c].pc = "failed",
                          ![c].error = "DuplicateHostnamesError"]
       ELSE cluster' = [cluster EXCEPT ![c].pc = "nodes", ![c].idx = 1]
  /\ UNCHANGED <<rtvars, ndvars, ex, fs>>

\* The loop taken over the nodes in reverse.
ClusterStartNode_Reversed(c) ==
  /\ cluster[c].pc = "nodes"
  /\ cluster[c].idx <= Len(cluster[c].nodes)
  /\ NodeStartBegin(
       cluster[c].nodes[Len(cluster[c].nodes) + 1 - cluster[c].idx],
       cluster[c].network[1], cluster[c].name, cluster[c].pull_images,
       cluster[c].pre_start_callback)
  /\ cluster' = [cluster EXCEPT ![c].pc = "in_node"]
  /\ UNCHANGED <<ex, fs>>

\* Lines 122-124: the loop enters node.start for the next node.
ClusterStartNode(c) ==
  /\ cluster[c].pc = "nodes"
  /\ cluster[c].idx <= Len(cluster[c].nodes)
  /\ NodeStartBegin(cluster[c].nodes[cluster[c].idx], cluster[c].network[1],
                    cluster[c].name, cluster[c].pull_images,
                    cluster[c].pre_start_callback)
  /\ cluster' = [cluster EXCEPT ![c].pc = "in_node"]
  /\ UNCHANGED <<ex, fs>>

\* node.start returns: the loop goes on to the next node.
ClusterNodeReturn(c) ==
  /\ cluster[c].pc = "in_node"
  /\ nst[cluster[c].nodes[cluster[c].idx]].pc = "established"
  /\ cluster' = [cluster EXCEPT ![c].pc = "nodes", ![c].idx = @ + 1]
  /\ UNCHANGED <<rtvars, ndvars, ex, fs>>

\* The failure of a node answered by removing the containers of the nodes
\* started before it.
ClusterNodeRaise_Rollback(c) ==
  /\ cluster[c].pc = "in_node"
  /\ nst[cluster[c].nodes[cluster[c].idx]].pc = "failed"
  /\ cluster' = [cluster EXCEPT
       ![c].pc = "failed",
       ![c].error = nst[cluster[c].nodes[cluster[c].idx]].error]
  /\ containers' = [i \in DOMAIN containers |->
       IF \E j \in 1..(cluster[c].idx - 1) :
            nrt[cluster[c].nodes[j]].container = Some(i)
         THEN [containers[i] EXCEPT !.state = "removed"]
         ELSE containers[i]]
  /\ UNCHANGED <<networks, images, etc_hosts, hostenv, faults, ndvars, ex, fs>>

\* node.start raises: the exception leaves Cluster.start.
ClusterNodeRaise(c) ==
  /\ cluster[c].pc = "in_node"
  /\ nst[cluster[c].nodes[cluster[c].idx]].pc = "failed"
  /\ cluster' = [cluster EXCEPT
       ![c].pc = "failed",
       ![c].error = nst[cluster[c].nodes[cluster[c].idx]].error]
  /\ UNCHANGED <<rtvars, ndvars, ex, fs>>

\* The loop is exhausted: Cluster.start returns.
ClusterStartReturn(c) ==
  /\ cluster[c].pc = "nodes"
  /\ cluster[c].idx > Len(cluster[c].nodes)
  /\ cluster' = [cluster EXCEPT ![c].pc = "done"]
  /\ UNCHANGED <<rtvars, ndvars, ex, fs>>

\* No execute call was made: the frame of Node.execute and of the
\* broadcast loop around it.
NoExec ==
  [pc |-> "idle", caller |-> "none", node |-> 0, stream |-> <<>>, ci |-> 1,
   exit_code |-> 0, output |-> <<>>, stdout |-> <<>>, stderr |-> <<>>,
   error |-> "", result |-> NoValue, members |-> <<>>, idx |-> 0,
   od |-> <<>>, pairs |-> <<>>, quiet |-> FALSE, logged |-> 0]

\* No file was put: the files of the containers, the last put_file call and
\* the get_file call made since.
NoFs == [files |-> EmptyDict, put |-> NoValue, got |-> NoValue]
(***************************************************************************)
(* Node.execute, lines 478-517; Cluster.execute, lines 126-140;            *)
(* NodeGroup.execute, lines 184-198.                                       *)
(***************************************************************************)
\* bytes.decode(): UTF-8 to code points.  Byte strings are drawn from Bytes,
\* which has one- and two-byte sequences only.
RECURSIVE Utf8Decode(_)
Utf8Decode(b) ==
  IF Len(b) = 0 THEN [ok |-> TRUE, text |-> <<>>]
  ELSE IF b[1] < 128
    THEN LET r == Utf8Decode(Tail(b))
         IN [ok |-> r.ok, text |-> IF r.ok THEN <<b[1]>> \o r.text ELSE <<>>]
  ELSE IF b[1] >= 194 /\ b[1] <= 223 /\ Len(b) >= 2 /\ b[2] >= 128 /\ b[2] <= 191
    THEN LET r == Utf8Decode(SubSeq(b, 3, Len(b)))
         IN [ok |-> r.ok,
             text |-> IF r.ok THEN <<(b[1] - 192) * 64 + (b[2] - 128)>> \o r.text
                               ELSE <<>>]
  ELSE [ok |-> FALSE, text |-> <<>>]

\* ''.join(list)
RECURSIVE Join(_)
Join(list) == IF Len(list) = 0 THEN <<>> ELSE list[1] \o Join(Tail(list))

\* namedtuple('ExecuteSession', ['exit_code', 'output', 'stdout', 'stderr'])
ExecuteSession(exit_code, output, stdout, stderr) ==
  [exit_code |-> exit_code, output |-> output, stdout |-> stdout,
   stderr |-> stderr]

\* Truth value of one half of a demultiplexed chunk: None and b'' are false.
Truthy(part) == Len(part) = 1 /\ Len(part[1]) > 0

\* Lines 503-512: the body of the loop over the response chunks.
HandleChunk(acc, response_chunk) ==
  LET a1 == IF Truthy(response_chunk[1])
              THEN LET d == Utf8Decode(response_chunk[1][1]) IN
                   IF d.ok
                     THEN [acc EXCEPT !.output = Append(@, d.text),
                                      !.stdout = Append(@, d.text)]
                     ELSE [acc EXCEPT !.error = "UnicodeDecodeError"]
              ELSE acc
  IN IF a1.error # "" \/ ~Truthy(response_chunk[2]) THEN a1
     ELSE LET d == Utf8Decode(response_chunk[2][1]) IN
          IF d.ok
            THEN [a1 EXCEPT !.output = Append(@, d.text),
                            !.stderr = Append(@, d.text)]
            ELSE [a1 EXCEPT !.error = "UnicodeDecodeError"]

\* Lines 492-499: exec_create on self.container.id, then the empty lists.
\* stream is what exec_start will deliver and exit_code what exec_inspect
\* will answer.  quiet silences the logging of the chunks (lines 501-502).
ExecCreate(frame, n, stream, exit_code, quiet) ==
  IF nrt[n].container = NoValue
    THEN [frame EXCEPT !.pc = "raised", !.error = "AttributeError", !.node = n,
                       !.quiet = quiet]
    ELSE [frame EXCEPT !.pc = "stream", !.node = n, !.stream = stream,
                       !.ci = 1, !.exit_code = exit_code, !.output = <<>>,
                       !.stdout = <<>>, !.stderr = <<>>, !.error = "",
                       !.result = NoValue, !.quiet = quiet, !.logged = 0]

ExecIdle == ex.pc \in {"idle", "returned", "raised"}

\* Node.execute called by the user.
NodeExecute(n, stream, exit_code, quiet) ==
  /\ ExecIdle
  /\ ex' = ExecCreate([NoExec EXCEPT !.caller = "user"], n, stream, exit_code,
                      quiet)
  /\ UNCHANGED <<rtvars, ndvars, cluster, fs>>

\* Lines 500-512: one response chunk.
ExecChunk ==
  /\ ex.pc = "stream"
  /\ ex.ci <= Len(ex.stream)
  /\ LET acc == HandleChunk([output |-> ex.output, stdout |-> ex.stdout,
                             stderr |-> ex.stderr, error |-> ""],
                            ex.stream[ex.ci])
         logged == IF ex.quiet THEN ex.logged ELSE ex.logged + 1
     IN ex' = IF acc.error # ""
                THEN [ex EXCEPT !.pc = "raised", !.error = acc.error,
                                !.logged = logged]
                ELSE [ex EXCEPT !.output = acc.output, !.stdout = acc.stdout,
                                !.stderr = acc.stderr, !.ci = @ + 1,
                                !.logged = logged]
  /\ UNCHANGED <<rtvars, ndvars, cluster, fs>>

\* Lines 513-517: the value Node.execute returns.
ExecResult ==
  ExecuteSession(ex.exit_code, Join(ex.output), Join(ex.stdout),
                 Join(ex.stderr))

\* A non-zero exit code raised as an error.
ExecReturn_RaiseOnFailure ==
  /\ ex.pc = "stream"
  /\ ex.ci > Len(ex.stream)
  /\ ex.caller = "user"
  /\ ex' = IF ex.exit_code = 0
             THEN [ex EXCEPT !.pc = "returned", !.result = Some(ExecResult)]
             ELSE [ex EXCEPT !.pc = "raised", !.error = "CalledProcessError"]
  /\ UNCHANGED <<rtvars, ndvars, cluster, fs>>

ExecReturn ==
  /\ ex.pc = "stream"
  /\ ex.ci > Len(ex.stream)
  /\ ex.caller = "user"
  /\ ex' = [ex EXCEPT !.pc = "returned", !.result = Some(ExecResult)]
  /\ UNCHANGED <<rtvars, ndvars, cluster, fs>>

\* OrderedDict: a sequence of <<key, value>>; a key that is set again keeps
\* its place and takes the new value.
OrderedDictSet(od, key, value) ==
  IF \E i \in DOMAIN od : od[i][1] = key
    THEN [i \in DOMAIN od |-> IF od[i][1] = key THEN <<key, value>> ELSE od[i]]
    ELSE Append(od, <<key, value>>)

\* Line 140: Cluster.execute, the loop over self.nodes.
ClusterExecute(c) ==
  /\ ExecIdle
  /\ cluster[c].pc \notin {"new", "raised"}
  /\ ex' = [NoExec EXCEPT !.caller = "broadcast", !.pc = "next",
                          !.members = cluster[c].nodes, !.idx = 1]
  /\ UNCHANGED <<rtvars, ndvars, cluster, fs>>

\* Line 198: NodeGroup.execute, the loop over self.nodes.
NodeGroupExecute(c, g) ==
  /\ ExecIdle
  /\ cluster[c].pc \notin {"new", "raised"}
  /\ g \in DOMAIN cluster[c].node_groups
  /\ ex' = [NoExec EXCEPT !.caller = "broadcast", !.pc = "next",
                          !.members = cluster[c].node_groups[g].nodes,
                          !.idx = 1]
  /\ UNCHANGED <<rtvars, ndvars, cluster, fs>>

\* Lines 140, 198: the next (node.fqdn, node.execute(command)) of the
\* generator: node.fqdn is read, then node.execute is entered.
BroadcastNext(stream, exit_code) ==
  /\ ex.pc = "next"
  /\ ex.idx <= Len(ex.members)
  /\ LET n == ex.members[ex.idx] IN
       ex' = IF nrt[n].fqdn = NoValue
               THEN [ex EXCEPT !.pc = "raised", !.error = "AttributeError",
                               !.node = n]
               ELSE ExecCreate(ex, n, stream, exit_code, FALSE)
  /\ UNCHANGED <<rtvars, ndvars, cluster, fs>>

\* node.execute returns inside the generator: the pair goes into the
\* OrderedDict.
BroadcastCollect ==
  /\ ex.pc = "stream"
  /\ ex.ci > Len(ex.stream)
  /\ ex.caller = "broadcast"
  /\ ex' = [ex EXCEPT !.pc = "next", !.idx = @ + 1,
                      !.result = Some(ExecResult),
                      !.pairs = Append(@, <<nrt[ex.node].fqdn, ExecResult>>),
                      !.od = OrderedDictSet(@, nrt[ex.node].fqdn, ExecResult)]
  /\ UNCHANGED <<rtvars, ndvars, cluster, fs>>

\* The generator is exhausted: the OrderedDict is returned.
BroadcastReturn ==
  /\ ex.pc = "next"
  /\ ex.idx > Len(ex.members)
  /\ ex' = [ex EXCEPT !.pc = "returned"]
  /\ UNCHANGED <<rtvars, ndvars, cluster, fs>>

(***************************************************************************)
(* Node.put_file, lines 536-555; Node.get_file, lines 519-534.             *)
(***************************************************************************)
\* A one-byte encoding of the code points below 256.
RECURSIVE Utf8Encode_OneByte(_)
Utf8Encode_OneByte(text) ==
  IF Len(text) = 0 THEN [ok |-> TRUE, bytes |-> <<>>]
  ELSE IF text[1] < 256
    THEN LET r == Utf8Encode_OneByte(Tail(text))
         IN [ok |-> r.ok, bytes |-> IF r.ok THEN <<text[1]>> \o r.bytes ELSE <<>>]
  ELSE [ok |-> FALSE, bytes |-> <<>>]

\* str.encode(): code points to UTF-8.  Text is drawn from Chars: code
\* points below 2048, and a lone surrogate, which has no encoding.
RECURSIVE Utf8Encode(_)
Utf8Encode(text) ==
  IF Len(text) = 0 THEN [ok |-> TRUE, bytes |-> <<>>]
  ELSE IF text[1] < 128
    THEN LET r == Utf8Encode(Tail(text))
         IN [ok |-> r.ok, bytes |-> IF r.ok THEN <<text[1]>> \o r.bytes ELSE <<>>]
  ELSE IF text[1] < 2048
    THEN LET r == Utf8Encode(Tail(text))
         IN [ok |-> r.ok,
             bytes |-> IF r.ok
                         THEN <<192 + (text[1] \div 64), 128 + (text[1] % 64)>>
                              \o r.bytes
                         ELSE <<>>]
  ELSE [ok |-> FALSE, bytes |-> <<>>]

StrPayload(text)    == [kind |-> "str", data |-> text]
BytesPayload(bytes) == [kind |-> "bytes", data |-> bytes]
NoPayload           == [kind |-> "none", data |-> <<>>]

\* tarfile.TarInfo(name)
TarInfo(name) == [name |-> name, size |-> 0, mtime |-> 0]

\* tarfile_.addfile(tarinfo, fileobj): tarinfo.size bytes are read.
TarAddFile(archive, tarinfo, fileobj) ==
  Append(archive, [info |-> tarinfo, data |-> SubSeq(fileobj, 1, tarinfo.size)])

\* container.put_archive(path, data): every member is written below path.
RECURSIVE PutArchive(_, _, _, _)
PutArchive(files, id, path, data) ==
  IF Len(data) = 0 THEN files
  ELSE PutArchive(DictSet(files, <<id, path \o data[1].info.name>>,
                          [data |-> data[1].data, mtime |-> data[1].info.mtime]),
                  id, path, Tail(data))

\* container.get_archive(path)[0]: the file as the one member of a tar
\* stream, named by its base name.
GetArchive(files, id, path) ==
  LET file == files[<<id, path>>] IN
    <<[info |-> [name |-> <<path[Len(path)]>>, size |-> Len(file.data),
                 mtime |-> file.mtime],
       data |-> file.data]>>

CallRecord(op, n, path, contents, value, error) ==
  [op |-> op, node |-> n, path |-> path, contents |-> contents,
   value |-> value, error |-> error]

\* Lines 543-555: Node.put_file; now is time.time().
PutFile(n, path, contents, now) ==
  LET enc == IF contents.kind = "str" THEN Utf8Encode(contents.data)
                                      ELSE [ok |-> TRUE, bytes |-> contents.data]
      file_contents == enc.bytes
      tarinfo == [TarInfo(path) EXCEPT !.mtime = now,
                                       !.size = Len(file_contents)]
      data == TarAddFile(<<>>, tarinfo, file_contents)
      error == IF ~enc.ok THEN "UnicodeEncodeError"
               ELSE IF nrt[n].container = NoValue THEN "AttributeError"
               ELSE ""
  IN /\ fs' = [files |-> IF error = ""
                           THEN PutArchive(fs.files, nrt[n].container[1], <<>>, data)
                           ELSE fs.files,
               put   |-> Some(CallRecord("put", n, path, contents, NoPayload, error)),
               got   |-> NoValue]
     /\ UNCHANGED <<rtvars, ndvars, cluster, ex>>

\* Lines 528-534: Node.get_file.
GetFile(n, path) ==
  LET id == nrt[n].container
      found == id # NoValue /\ <<id[1], path>> \in DOMAIN fs.files
      d == IF found
             THEN Utf8Decode(GetArchive(fs.files, id[1], path)[1].data)
             ELSE [ok |-> FALSE, text |-> <<>>]
      error == IF id = NoValue THEN "AttributeError"
               ELSE IF ~found THEN "NotFound"
               ELSE IF ~d.ok THEN "UnicodeDecodeError"
               ELSE ""
  IN /\ fs' = [fs EXCEPT
               !.got = Some(CallRecord("get", n, path, NoPayload,
                              IF error = "" THEN StrPayload(d.text) ELSE NoPayload,
                              error))]
     /\ UNCHANGED <<rtvars, ndvars, cluster, ex>>

(***************************************************************************)
(* The states after construction.                                          *)
(***************************************************************************)
NodeInit(hostname, group, image, ports, volumes) ==
  [hostname |-> hostname, group |-> group, image |-> image,
   ports |-> ports, volumes |-> volumes]

IdleFrame ==
  [pc |-> "idle", error |-> "", starts |-> 0, network |-> <<>>,
   cluster_name |-> "", pull_images |-> FALSE, callback |-> "None",
   labels |-> <<>>, hc_binds |-> EmptyDict, hc_volumes_from |-> <<>>,
   hc_privileged |-> FALSE,
   cc_volumes |-> <<>>, vi |-> 1, binds |-> EmptyDict, volumes |-> <<>>,
   volumes_from |-> <<>>, ports |-> <<>>, port_bindings |-> EmptyDict,
   container_id |-> 0, cb_calls |-> <<>>, inspected |-> NoValue,
   which_sshd |-> NoValue, sshd_status |-> NoValue, calls |-> <<>>]

NewCluster ==
  [pc |-> "new", name |-> "", requested |-> NoValue, nodes |-> <<>>,
   node_groups |-> <<>>, network |-> NoValue, the_network |-> NoValue,
   fetched |-> FALSE,
   pull_images |-> FALSE, update_etc_hosts |-> TRUE,
   pre_start_callback |-> "None", idx |-> 0, starts |-> 0, error |-> "",
   explanation |-> <<>>]


InitRuntime ==
  /\ networks = <<>>
  /\ containers = <<>>
  /\ etc_hosts = <<>>
  /\ faults = 0

InitObjects ==
  /\ NodeClass =
       [DEFAULT_CREATE_HOST_CONFIG_KWARGS |->
          [cap_add |-> <<"ALL">>, security_opt |-> <<"seccomp=unconfined">>],
        DEFAULT_CREATE_CONTAINER_KWARGS |->
          [detach |-> TRUE,
           volumes |-> DEFAULT_CREATE_CONTAINER_KWARGS_volumes]]
  /\ nrt = [n \in NodeIds |->
             [fqdn |-> NoValue, container |-> NoValue,
              ip_address |-> NoValue, host_ports |-> NoValue]]
  /\ nst = [n \in NodeIds |-> IdleFrame]
  /\ cluster = [c \in ClusterIds |-> NewCluster]

(***************************************************************************)
(* Spec: Cluster objects constructed and started one call at a time (the   *)
(* program is single-threaded: a call returns before the next is made).    *)
(***************************************************************************)
\* The nodes of the two clusters: nodes 1, 2 and nodes 3, 4.
ClusterNodeLists(c) ==
  IF c = 1 THEN {<<1, 2>>} ELSE {<<3>>, <<3, 4>>}

Init ==
  /\ InitRuntime
  /\ InitObjects
  /\ images = {"img"}
  /\ hostenv \in {[darwin |-> FALSE, in_docker |-> FALSE],
                  [darwin |-> TRUE, in_docker |-> FALSE]}
  /\ \E h2 \in {<<"a">>, <<"b">>}, h3 \in {<<"a">>, <<"a", "b">>} :
       node = [n \in NodeIds |->
         CASE n = 1 -> NodeInit(<<"a">>, "g1", "img",
                                <<PInt(8080)>>, <<VStr("vimg")>>)
           [] n = 2 -> NodeInit(h2, "g2", "img", <<>>, <<>>)
           [] n = 3 -> NodeInit(h3, "g1", "img", <<>>, <<>>)
           [] OTHER -> NodeInit(<<"b">>, "g1", "img", <<>>, <<>>)]
  /\ ex = NoExec
  /\ fs = NoFs

StartNetworks  == {<<"c">>}
StartCallbacks == {"None", "raises"}

ClusterCall(c) ==
  \/ \E nodes \in ClusterNodeLists(c),
        cluster_name \in {NoValue, Some("cl1")} :
       ClusterInit(c, nodes, cluster_name)
  \/ \E network \in StartNetworks, pre_start_callback \in StartCallbacks :
       ClusterStart(c, network, FALSE, TRUE, pre_start_callback)

ClusterRun(c) ==
  \/ ClusterCheck(c)
  \/ ClusterStartNode(c)
  \/ ClusterNodeReturn(c)
  \/ ClusterNodeRaise(c)
  \/ ClusterStartReturn(c)

NoCallUnderWay == \A c \in ClusterIds : ~ClusterBusy(c)

\* The steps of the node.start call that a Cluster.start is in are those of
\* NodeStep: a node is inside start only while its cluster's loop is at it.
Next ==
  \/ \E c \in ClusterIds : NoCallUnderWay /\ ClusterCall(c)
  \/ \E c \in ClusterIds : ClusterRun(c)
  \/ \E n \in NodeIds : NodeStep(n)

Spec == Init /\ [][Next]_vars

(***************************************************************************)
(* Properties of Cluster.start, checked under Spec.                        *)
(***************************************************************************)
\* The containers attached to network name that carry alias.
Attached(name, alias) ==
  {i \in DOMAIN containers :
     /\ containers[i].network = name
     /\ containers[i].state # "removed"
     /\ alias \in Range(containers[i].aliases)}

HasDuplicate(c) ==
  \E n \in Range(cluster[c].nodes) :
    Attached(cluster[c].network[1], node[n].hostname) # {}

\* C1: a Cluster.start on a network that already has an attached container
\* aliased to the hostname of one of the cluster's nodes fails with
\* DuplicateHostnamesError, and from the entry of start to the failure no
\* container is created and no Node.start is entered.
C1_DuplicateHostnamesFail ==
  [][\A c \in ClusterIds :
       /\ (cluster[c].pc = "check" /\ HasDuplicate(c)) =>
            /\ cluster'[c].pc = "failed"
            /\ cluster'[c].error = "DuplicateHostnamesError"
            /\ containers' = containers
            /\ nst' = nst
       /\ cluster'[c].pc = "check" =>
            /\ containers' = containers
            /\ nst' = nst]_vars

C1_Witness ==
  \E c \in ClusterIds :
    /\ cluster[c].pc = "failed"
    /\ cluster[c].error = "DuplicateHostnamesError"
    /\ HasDuplicate(c)

\* C2, as stated: a Cluster with an explicitly requested name that is the
\* name of an active cluster never reaches the network setup of start.
C2_Original ==
  [][\A c \in ClusterIds :
       (/\ cluster[c].requested # NoValue
        /\ cluster[c].starts = 0
        /\ cluster[c].name \in ActiveClusterNames)
         => cluster'[c].starts = 0]_vars

\* C2, amended: a Cluster constructed with an explicitly requested name that
\* is, at the time of the construction, the name of an active cluster fails
\* in the constructor with DuplicateClusterNameError; the constructor makes
\* no network or container call, and the failed object is never started.
C2_DuplicateNameAtConstruction ==
  [][\A c \in ClusterIds :
       /\ (cluster[c].pc = "new" /\ cluster'[c].pc # "new") =>
            /\ networks' = networks /\ containers' = containers
            /\ (cluster'[c].requested # NoValue
                /\ cluster'[c].requested[1] \in ActiveClusterNames) =>
                  /\ cluster'[c].pc = "raised"
                  /\ cluster'[c].error = "DuplicateClusterNameError"
       /\ cluster[c].pc = "raised" => cluster'[c] = cluster[c]]_vars

C2_Witness ==
  \E c \in ClusterIds :
    /\ cluster[c].pc = "raised"
    /\ cluster[c].requested[1] \in ActiveClusterNames

\* C3: network setup is idempotent.  No start fails with the runtime's
\* 'already exists' error, the handle a start holds is that of the network
\* of the requested name, and no two networks have the same name.
C3_NetworkSetupIdempotent ==
  /\ \A i, j \in DOMAIN networks :
       networks[i].name = networks[j].name => i = j
  /\ \A c \in ClusterIds :
       /\ cluster[c].network # NoValue =>
            cluster[c].explanation # AlreadyExists(cluster[c].network[1])
       /\ cluster[c].the_network # NoValue =>
            /\ cluster[c].the_network[1].name = cluster[c].network[1]
            /\ NetworkExists(cluster[c].network[1])

\* A second start on the network: the handle of the existing network, with
\* the containers the first start attached to it.
C3_Witness ==
  \E c \in ClusterIds :
    /\ cluster[c].pc = "check"
    /\ Len(cluster[c].the_network[1].containers) > 0
    /\ Len(networks) = 1

\* C4: within one Cluster.start the network setup completes before the
\* duplicate-hostname check, the check before the first Node.start, and
\* the nodes are started one at a time in declaration order, each after the
\* start of the one before it has returned.
C4_StartOrder ==
  [][\A c \in ClusterIds :
       /\ cluster[c].pc = "check" => cluster[c].the_network # NoValue
       /\ cluster'[c].idx # cluster[c].idx =>
            \/ cluster[c].pc \notin {"check", "nodes", "in_node"}
                 /\ cluster'[c].idx = 0
            \/ cluster[c].pc = "check" /\ cluster'[c].idx = 1
            \/ /\ cluster[c].pc = "in_node"
               /\ cluster'[c].idx = cluster[c].idx + 1
               /\ nst[cluster[c].nodes[cluster[c].idx]].pc = "established"
       /\ \A j \in DOMAIN cluster[c].nodes :
            nst'[cluster[c].nodes[j]].starts # nst[cluster[c].nodes[j]].starts =>
              /\ cluster[c].pc = "nodes"
              /\ cluster[c].idx = j
              /\ cluster[c].the_network # NoValue
              /\ \A i \in DOMAIN cluster[c].nodes :
                   ~NodeStarting(cluster[c].nodes[i])]_vars

C4_Witness ==
  \E c \in ClusterIds :
    /\ cluster[c].pc = "in_node"
    /\ cluster[c].idx = 2
    /\ nst[cluster[c].nodes[1]].pc = "established"
    /\ NodeStarting(cluster[c].nodes[2])

\* C22, as stated: with the Cluster.start calls made one after the other, no
\* two containers attached to one network carry the same hostname alias.
C22_Original ==
  \A i, j \in DOMAIN containers :
    (/\ containers[i].network # <<>>
     /\ containers[i].network = containers[j].network
     /\ containers[i].state # "removed"
     /\ containers[j].state # "removed"
     /\ Range(containers[i].aliases) \cap Range(containers[j].aliases) # {})
      => i = j

(***************************************************************************)
(* SpecGroups: the constructor on every list of up to MaxNodes nodes,      *)
(* whatever the nodes' groups.                                             *)
(***************************************************************************)
InitGroups ==
  /\ InitRuntime
  /\ InitObjects
  /\ images = {"img"}
  /\ hostenv = [darwin |-> FALSE, in_docker |-> FALSE]
  /\ node \in [NodeIds ->
       {NodeInit(h, g, "img", <<>>, <<>>) :
          h \in {<<"a">>, <<"b">>}, g \in GroupNames}]
  /\ ex = NoExec
  /\ fs = NoFs

NextGroups ==
  \E nodes \in SeqsUpTo(NodeIds, MaxNodes) : ClusterInit(1, nodes, NoValue)

SpecGroups == InitGroups /\ [][NextGroups]_vars

DistinctPairs(nodes) ==
  \A i, j \in DOMAIN nodes :
    (/\ node[nodes[i]].group = node[nodes[j]].group
     /\ node[nodes[i]].hostname = node[nodes[j]].hostname) => i = j

Occurrences(seq, x) == Cardinality({i \in DOMAIN seq : seq[i] = x})

FirstIndex(nodes, group) ==
  CHOOSE i \in DOMAIN nodes :
    /\ node[nodes[i]].group = group
    /\ \A j \in 1..(i - 1) : node[nodes[j]].group # group

\* C5: for nodes with distinct (group, hostname) pairs, every node is in
\* exactly one NodeGroup, the one keyed by its group; node_groups lists the
\* group names in first-seen order; the nodes of a group are in
\* declaration order.
C5_GroupPartition ==
  \A c \in ClusterIds :
    (cluster[c].pc = "constructed" /\ DistinctPairs(cluster[c].nodes)) =>
      LET nodes  == cluster[c].nodes
          groups == cluster[c].node_groups
      IN /\ \A n \in Range(nodes) :
              /\ \E k \in DOMAIN groups :
                   /\ groups[k].name = node[n].group
                   /\ Occurrences(groups[k].nodes, n) = 1
              /\ \A k \in DOMAIN groups :
                   groups[k].name # node[n].group =>
                     Occurrences(groups[k].nodes, n) = 0
         /\ \A k \in DOMAIN groups :
              /\ groups[k].nodes # <<>>
              /\ Range(groups[k].nodes) \subseteq Range(nodes)
              /\ \A x, y \in DOMAIN groups[k].nodes :
                   x < y =>
                     \E i, j \in DOMAIN nodes :
                       /\ i < j
                       /\ nodes[i] = groups[k].nodes[x]
                       /\ nodes[j] = groups[k].nodes[y]
         /\ \A k, l \in DOMAIN groups :
              k < l => FirstIndex(nodes, groups[k].name)
                         < FirstIndex(nodes, groups[l].name)

\* Three nodes, the groups interleaved: g, g', g.
C5_Witness ==
  \E c \in ClusterIds :
    /\ cluster[c].pc = "constructed"
    /\ DistinctPairs(cluster[c].nodes)
    /\ Len(cluster[c].nodes) = 3
    /\ Len(cluster[c].node_groups) = 2
    /\ node[cluster[c].nodes[1]].group = node[cluster[c].nodes[3]].group
    /\ node[cluster[c].nodes[1]].group # node[cluster[c].nodes[2]].group

(***************************************************************************)
(* SpecNode: one Node.start call on a node that was not started before,    *)
(* for every volumes list of up to MaxVolumes entries and every ports list *)
(* of up to MaxPorts entries.                                              *)
(***************************************************************************)
NodeConfigs ==
  {NodeInit(<<"a">>, "g1", "img", ports, volumes) :
     ports \in {<<>>, <<PInt(8080)>>},
     volumes \in SeqsUpTo(VolumeEntries, MaxVolumes)}
  \cup
  {NodeInit(<<"a">>, "g1", "img", ports, volumes) :
     ports \in SeqsUpTo(PortEntries, MaxPorts),
     volumes \in {<<>>, <<VStr("vimg")>>}}

InitNode ==
  /\ InitRuntime
  /\ InitObjects
  /\ images = {"img"}
  /\ hostenv \in {[darwin |-> FALSE, in_docker |-> FALSE],
                  [darwin |-> TRUE, in_docker |-> FALSE],
                  [darwin |-> FALSE, in_docker |-> TRUE]}
  /\ \E config \in NodeConfigs : node = [n \in NodeIds |-> config]
  /\ ex = NoExec
  /\ fs = NoFs

NextNode ==
  \/ \E network \in NetworkNames, pull_images \in BOOLEAN,
        callback \in {"None", "returns"} :
       /\ nst[1].starts = 0
       /\ NodeStartBegin(1, network, "None", pull_images, callback)
       /\ UNCHANGED <<cluster, ex, fs>>
  \/ NodeStep(1)

SpecNode == InitNode /\ [][NextNode]_vars

BadVolume(n) == \E i \in DOMAIN node[n].volumes :
                  node[n].volumes[i].t \notin {"list", "dict", "str"}

\* C9, as stated: a start of a node whose volumes list has an entry that is
\* not a list, a mapping or a string makes no runtime call.
C9_Original ==
  \A n \in NodeIds :
    BadVolume(n) => nst[n].calls = <<>> /\ containers = <<>>

NodeContainers(n) ==
  {i \in DOMAIN containers :
     containers[i].kind = "node" /\ containers[i].aliases = <<node[n].hostname>>}

PastPorts(n) ==
  nst[n].pc \in {"image", "create", "callback", "start", "wait_running",
                 "sshd_probe", "wait_sshd", "etc_hosts", "established"}

\* The last entry of the ports list that names container port p.
LastEntry(ports, p) ==
  ports[CHOOSE i \in DOMAIN ports :
          ports[i].c = p /\ \A j \in DOMAIN ports : ports[j].c = p => j <= i]

\* C10, as stated: every bare integer p of the ports list gives container
\* port p an unspecified host binding, every mapping {h: c} binds host port
\* h to container port c, and an entry of any other type makes the ports
\* loop fail with a type error, the node's container not created.
C10_Original ==
  \A n \in NodeIds :
    /\ nst[n].container_id # 0 =>
         \A i \in DOMAIN node[n].ports :
           LET port == node[n].ports[i]
               created == containers[nst[n].container_id]
           IN /\ port.t = "int" =>
                   /\ port.c \in Range(created.ports)
                   /\ created.port_bindings[port.c] = NoValue
              /\ port.t = "dict" =>
                   /\ port.c \in Range(created.ports)
                   /\ created.port_bindings[port.c] = Some(port.h)
    /\ (\E i \in DOMAIN node[n].ports :
          node[n].ports[i].t \notin {"int", "dict"}) =>
         /\ NodeContainers(n) = {}
         /\ ~PastPorts(n)
         /\ (nst[n].pc = "failed" /\ nst[n].vi > Len(node[n].volumes)) =>
              nst[n].error = "TypeError"

\* C10, amended: the ports are resolved in order; a bare integer p (a bool
\* is an integer) names container port p with an unspecified host binding,
\* a mapping {h: c} names container port c bound to host port h, and the
\* last entry that names a container port decides its binding.  An entry of
\* any other type makes the ports loop fail with a type error, the node's
\* container not created.
C10_PortBindings ==
  \A n \in NodeIds :
    LET ports == node[n].ports
        bad   == \E i \in DOMAIN ports : ports[i].t \notin {"int", "bool", "dict"}
    IN /\ nst[n].container_id # 0 =>
            LET created == containers[nst[n].container_id] IN
              /\ created.ports = [i \in DOMAIN ports |-> ports[i].c]
              /\ DOMAIN created.port_bindings = {ports[i].c : i \in DOMAIN ports}
              /\ \A p \in DOMAIN created.port_bindings :
                   created.port_bindings[p] =
                     IF LastEntry(ports, p).t = "dict"
                       THEN Some(LastEntry(ports, p).h) ELSE NoValue
       /\ bad =>
            /\ NodeContainers(n) = {}
            /\ ~PastPorts(n)
            /\ (nst[n].pc = "failed" /\ nst[n].vi > Len(node[n].volumes)) =>
                 nst[n].error = "TypeError"

\* A container created from an integer entry and a later mapping entry of
\* the same container port.
C10_Witness ==
  \E n \in NodeIds :
    /\ nst[n].container_id # 0
    /\ node[n].ports = <<PInt(8080), PDict(9000, 8080)>>
    /\ containers[nst[n].container_id].port_bindings[8080] = Some(9000)

\* C14: the wait for sshd is entered from the probe, and only when the
\* probe returned exit code 0; after any other exit code the start goes to
\* its last step without an error.  The wait ends in the last step when
\* 'service sshd status' has returned 0 and in a TimeoutError otherwise,
\* and the last step is reached in no other way.
C14_SshdWait ==
  [][\A n \in NodeIds :
       LET f == nst[n]
           g == nst'[n]
       IN /\ (f.pc = "sshd_probe" /\ g # f) =>
               /\ g.which_sshd # NoValue
               /\ g.pc = IF g.which_sshd = Some(0) THEN "wait_sshd"
                                                   ELSE "etc_hosts"
               /\ g.error = ""
               /\ g.sshd_status = NoValue
          /\ (g.pc = "wait_sshd" /\ f.pc # "wait_sshd") => f.pc = "sshd_probe"
          /\ (f.pc = "wait_sshd" /\ g # f) =>
               \/ g.pc = "etc_hosts" /\ g.sshd_status = Some(0) /\ g.error = ""
               \/ /\ g.pc = "failed"
                  /\ g.error = "TimeoutError"
                  /\ g.sshd_status # Some(0)
          /\ (g.pc = "etc_hosts" /\ f.pc # "etc_hosts") =>
               \/ f.pc = "sshd_probe" /\ g.which_sshd # Some(0)
               \/ f.pc = "wait_sshd" /\ g.sshd_status = Some(0)
          /\ (f.pc = "etc_hosts" /\ g # f) => g.pc = "established"]_vars

\* A start that found sshd, waited for it and went on to its end.
C14_Witness ==
  \E n \in NodeIds :
    /\ nst[n].pc = "established"
    /\ nst[n].which_sshd = Some(0)
    /\ nst[n].sshd_status = Some(0)

\* C15, as stated: without pull_images an image is pulled only after its
\* inspection failed with NotFound(404, 'No such image'); after any other
\* failure of the inspection the start has failed with that error, and the
\* container that was to be created from the image is not.
C15_Original ==
  \A n \in NodeIds :
    (~nst[n].pull_images /\ nst[n].inspected # NoValue) =>
      LET outcome == nst[n].inspected[1].outcome
          calls   == nst[n].calls
      IN /\ (calls[Len(calls)] = "pull") = (outcome = "no_such_image")
         /\ outcome \in {"not_found_other", "api_error"} =>
              /\ nst[n].pc = "failed"
              /\ nst[n].error \in {"NotFound", "APIError"}
              /\ calls[Len(calls)] = "inspect_image"

(***************************************************************************)
(* SpecRestart: a node started, stopped and started again, on one network  *)
(* or another.                                                             *)
(***************************************************************************)
InitRestart ==
  /\ InitRuntime
  /\ InitObjects
  /\ images = {"img"}
  /\ hostenv = [darwin |-> FALSE, in_docker |-> FALSE]
  /\ node = [n \in NodeIds |->
       NodeInit(<<"a">>, "g1", "img", <<PInt(8080)>>, <<VStr("vimg")>>)]
  /\ ex = NoExec
  /\ fs = NoFs

NextRestart ==
  \/ \E network \in NetworkNames :
       /\ NodeStartBegin(1, network, "None", FALSE, "None")
       /\ UNCHANGED <<cluster, ex, fs>>
  \/ NodeStep(1)
  \/ \E remove \in BOOLEAN : NodeStop(1, remove)

SpecRestart == InitRestart /\ [][NextRestart]_vars

\* C16, as stated: while the first start of a node has not completed, none
\* of fqdn, container, ip_address and host_ports is defined; once a start
\* has completed, fqdn never changes.
C16_Original ==
  [][\A n \in NodeIds :
       /\ (nst[n].starts <= 1 /\ nst[n].pc # "established") =>
            /\ nrt[n].fqdn = NoValue
            /\ nrt[n].container = NoValue
            /\ nrt[n].ip_address = NoValue
            /\ nrt[n].host_ports = NoValue
       /\ nrt[n].ip_address # NoValue => nrt'[n].fqdn = nrt[n].fqdn]_vars

\* C16, amended: before the first start call none of the four fields is
\* defined.  A start call sets fqdn to hostname.network on entry, container
\* when the start request has been accepted, ip_address and host_ports when
\* the container has reported Running, and nothing else sets them: after a
\* start that completed all four are defined, by that start; a field that a
\* failed start did not reach keeps the value it had; fqdn changes only on
\* entry to a start call.
C16_RuntimeFields ==
  [][\A n \in NodeIds :
       LET f == nst[n]
           g == nst'[n]
       IN /\ f.starts = 0 =>
               /\ nrt[n].fqdn = NoValue
               /\ nrt[n].container = NoValue
               /\ nrt[n].ip_address = NoValue
               /\ nrt[n].host_ports = NoValue
          /\ f.starts > 0 => nrt[n].fqdn = node[n].hostname \o f.network
          /\ nrt'[n].fqdn # nrt[n].fqdn => g.starts = f.starts + 1
          /\ nrt'[n].container # nrt[n].container =>
               /\ f.pc = "start"
               /\ g.pc = "wait_running"
               /\ nrt'[n].container = Some(f.container_id)
          /\ (\/ nrt'[n].ip_address # nrt[n].ip_address
              \/ nrt'[n].host_ports # nrt[n].host_ports) =>
               /\ f.pc = "wait_running"
               /\ g.pc = "sshd_probe"
               /\ containers[f.container_id].state = "running"
          /\ f.pc \in {"sshd_probe", "wait_sshd", "etc_hosts", "established"} =>
               /\ nrt[n].container = Some(f.container_id)
               /\ nrt[n].ip_address = Some(f.container_id)
               /\ nrt[n].host_ports # NoValue]_vars

\* A start that timed out waiting for Running: fqdn and container are
\* defined, ip_address and host_ports are not.
C16_Witness ==
  \E n \in NodeIds :
    /\ nst[n].pc = "failed"
    /\ nst[n].error = "TimeoutError"
    /\ nrt[n].fqdn = <<"a", "c">>
    /\ nrt[n].container = Some(nst[n].container_id)
    /\ nrt[n].ip_address = NoValue
    /\ nrt[n].host_ports = NoValue

(***************************************************************************)
(* SpecExec: one Node.execute call on a node, before or after its start,   *)
(* for every stream of up to MaxChunks chunks.                             *)
(***************************************************************************)
\* The bytes of 'a' and of the two-byte encoding of U+00E9.
Bytes == {97, 195, 169}

\* One half of a chunk: None, b'', or some bytes.
ChunkParts ==
  {NoValue, Some(<<>>), Some(<<97>>), Some(<<195>>), Some(<<169>>),
   Some(<<195, 169>>)}

ExecStreams == SeqsUpTo(ChunkParts \X ChunkParts, MaxChunks)

\* A node with one port and the volumes of one image.
SimpleNode(hostname, group) ==
  NodeInit(hostname, group, "img", <<PInt(8080)>>, <<VStr("vimg")>>)

InitExec ==
  /\ InitRuntime
  /\ InitObjects
  /\ images = {"img"}
  /\ hostenv = [darwin |-> FALSE, in_docker |-> FALSE]
  /\ node = [n \in NodeIds |-> SimpleNode(<<"a">>, "g1")]
  /\ ex = NoExec
  /\ fs = NoFs

NextExec ==
  \/ /\ nst[1].starts = 0
     /\ ExecIdle
     /\ NodeStartBegin(1, <<"c">>, "None", FALSE, "None")
     /\ UNCHANGED <<cluster, ex, fs>>
  \/ NodeStep(1)
  \/ /\ ~NodeStarting(1)
     /\ ex.pc = "idle"
     /\ \E stream \in ExecStreams, exit_code \in {0, 1} :
          NodeExecute(1, stream, exit_code, FALSE)
  \/ ExecChunk
  \/ ExecReturn

SpecExec == InitExec /\ [][NextExec]_vars

\* The truthy halves of a stream in arrival order, stdout before stderr
\* within a chunk.
RECURSIVE StreamParts(_)
StreamParts(stream) ==
  IF Len(stream) = 0 THEN <<>>
  ELSE (IF Truthy(stream[1][1])
          THEN <<[fd |-> "stdout", data |-> stream[1][1][1]] >> ELSE <<>>)
       \o (IF Truthy(stream[1][2])
          THEN <<[fd |-> "stderr", data |-> stream[1][2][1]] >> ELSE <<>>)
       \o StreamParts(Tail(stream))

IsStdout(part) == part.fd = "stdout"
IsStderr(part) == part.fd = "stderr"
Decoded(parts) == [i \in DOMAIN parts |-> Utf8Decode(parts[i].data).text]

\* The lists hold the chunks handled so far, every one once and in arrival
\* order, stdout and stderr being the parts of output of each stream.
ListsMatch ==
  LET parts == StreamParts(SubSeq(ex.stream, 1, ex.ci - 1)) IN
    /\ ex.output = Decoded(parts)
    /\ ex.stdout = Decoded(SelectSeq(parts, IsStdout))
    /\ ex.stderr = Decoded(SelectSeq(parts, IsStderr))

\* C7, as stated: for every sequence of chunks the runtime delivers, each
\* chunk is appended to output and to the list of its stream, and a result
\* is returned whose stdout and stderr are the parts of output of each
\* stream, in arrival order, output holding every chunk once.
C7_Original ==
  /\ ex.error # "UnicodeDecodeError"
  /\ ex.pc = "stream" => ListsMatch
  /\ (ex.pc = "returned" /\ ex.caller = "user") =>
       /\ ex.ci = Len(ex.stream) + 1
       /\ ListsMatch
       /\ ex.result = Some(ExecuteSession(ex.exit_code, Join(ex.output),
                                         Join(ex.stdout), Join(ex.stderr)))

(***************************************************************************)
(* SpecExit: Node.execute calls on a node, before and after its start, for *)
(* every exit code and either value of quiet, the output arriving in up to *)
(* MaxChunks chunks.                                                       *)
(***************************************************************************)
\* Exit codes exec_inspect reports: success, failure, command not found.
ExitCodes == {0, 1, 127}

\* A chunk of stdout, one of stderr, and one that ends inside a character.
ExitStreams ==
  SeqsUpTo({<<Some(<<97>>), NoValue>>, <<NoValue, Some(<<97>>)>>,
            <<Some(<<195>>), NoValue>>}, MaxChunks)

NextExit ==
  \/ /\ nst[1].starts = 0
     /\ ExecIdle
     /\ NodeStartBegin(1, <<"c">>, "None", FALSE, "None")
     /\ UNCHANGED <<cluster, ex, fs>>
  \/ NodeStep(1)
  \/ /\ ~NodeStarting(1)
     /\ ex.pc = "idle"
     /\ \E stream \in ExitStreams, exit_code \in ExitCodes, quiet \in BOOLEAN :
          NodeExecute(1, stream, exit_code, quiet)
  \/ ExecChunk
  \/ ExecReturn

SpecExit == InitExec /\ [][NextExit]_vars

\* C19: once the output of the command has been read, Node.execute returns,
\* whatever exit code the runtime reports: the result carries that exit code
\* and the output captured from the stream, the same with and without
\* quiet.  execute raises only before the exit code is read.
C19_ExitCodeIsData ==
  [][/\ (ex.pc = "stream" /\ ex.ci > Len(ex.stream) /\ ex' # ex) =>
          LET parts == StreamParts(ex.stream) IN
            /\ ex'.pc = "returned"
            /\ ex'.result =
                 Some(ExecuteSession(ex.exit_code,
                        Join(Decoded(parts)),
                        Join(Decoded(SelectSeq(parts, IsStdout))),
                        Join(Decoded(SelectSeq(parts, IsStderr)))))
     /\ (ex'.pc = "raised" /\ ex.pc # "raised") =>
          \/ ex.pc = "idle" /\ nrt[ex'.node].container = NoValue
          \/ ex.pc = "stream" /\ ex.ci <= Len(ex.stream)
     /\ ex'.logged # ex.logged => ~ex'.quiet
     /\ (ex.pc = "stream" /\ ex'.pc = "stream") =>
          /\ ex'.exit_code = ex.exit_code
          /\ ex'.quiet = ex.quiet]_vars

\* A quiet call returned the output of a command that was not found.
C19_Witness ==
  /\ ex.pc = "returned"
  /\ ex.quiet
  /\ ex.logged = 0
  /\ ex.result = Some(ExecuteSession(127, <<97, 97>>, <<97>>, <<97>>))

(***************************************************************************)
(* SpecBroadcast: one cluster of up to MaxMembers nodes, constructed,      *)
(* started once, and asked to execute a command on all its nodes or on the *)
(* nodes of one of its groups.                                             *)
(***************************************************************************)
BroadcastNodes == 1..3

BroadcastNodeLists ==
  {s \in SeqsUpTo(BroadcastNodes, MaxMembers) :
     Len(s) > 0 /\ \A i, j \in DOMAIN s : s[i] = s[j] => i = j}

BroadcastStreams ==
  {<<>>, << <<Some(<<97>>), NoValue>> >>, << <<NoValue, Some(<<97>>)>> >>}

InitBroadcast ==
  /\ InitRuntime
  /\ InitObjects
  /\ images = {"img"}
  /\ hostenv = [darwin |-> FALSE, in_docker |-> FALSE]
  /\ \E h2 \in {<<"a">>, <<"b">>} :
       node = [n \in NodeIds |->
         CASE n = 1 -> SimpleNode(<<"a">>, "g1")
           [] n = 2 -> SimpleNode(h2, "g2")
           [] OTHER -> SimpleNode(<<"b">>, "g1")]
  /\ ex = NoExec
  /\ fs = NoFs

NextBroadcast ==
  \/ \E nodes \in BroadcastNodeLists : ClusterInit(1, nodes, NoValue)
  \/ /\ NoCallUnderWay
     /\ ExecIdle
     /\ cluster[1].starts = 0
     /\ ClusterStart(1, <<"c">>, FALSE, TRUE, "None")
  \/ ClusterRun(1)
  \/ \E n \in NodeIds : NodeStep(n)
  \/ NoCallUnderWay /\ ClusterExecute(1)
  \/ NoCallUnderWay /\ \E g \in 1..2 : NodeGroupExecute(1, g)
  \/ \E stream \in BroadcastStreams, exit_code \in {0, 1} :
       BroadcastNext(stream, exit_code)
  \/ ExecChunk
  \/ BroadcastCollect
  \/ BroadcastReturn

SpecBroadcast == InitBroadcast /\ [][NextBroadcast]_vars

\* C6, as stated: an execute broadcast over N started nodes with distinct
\* (group, hostname) pairs returns exactly N entries, the i-th keyed by the
\* FQDN of the i-th node and holding the result of the command on that node.
C6_Original ==
  (/\ ex.pc = "returned"
   /\ ex.caller = "broadcast"
   /\ \A i \in DOMAIN ex.members : nst[ex.members[i]].pc = "established"
   /\ DistinctPairs(ex.members)) =>
     /\ Len(ex.od) = Len(ex.members)
     /\ \A i \in DOMAIN ex.members :
          /\ ex.od[i][1] = nrt[ex.members[i]].fqdn
          /\ ex.od[i][2] = ex.pairs[i][2]

(***************************************************************************)
(* SpecFile: put_file and get_file on one node, before and after its       *)
(* start, for every text and binary payload of up to MaxPayload characters *)
(* or bytes.                                                               *)
(***************************************************************************)
\* 'a', U+00E9 and the lone surrogate U+D800.
Chars == {97, 233, 55296}

Payloads ==
  {StrPayload(t) : t \in SeqsUpTo(Chars, MaxPayload)}
  \cup {BytesPayload(b) : b \in SeqsUpTo(Bytes, MaxPayload)}

\* The path that is put, the paths that are got, the clock.
PutPaths == {<<"d", "g">>}
GetPaths == {<<"d", "g">>, <<"f">>}
Times    == {1}

InitFile ==
  /\ InitRuntime
  /\ InitObjects
  /\ images = {"img"}
  /\ hostenv = [darwin |-> FALSE, in_docker |-> FALSE]
  /\ node = [n \in NodeIds |-> SimpleNode(<<"a">>, "g1")]
  /\ ex = NoExec
  /\ fs = NoFs

NextFile ==
  \/ /\ nst[1].starts = 0
     /\ NodeStartBegin(1, <<"c">>, "None", FALSE, "None")
     /\ UNCHANGED <<cluster, ex, fs>>
  \/ NodeStep(1)
  \/ /\ ~NodeStarting(1)
     /\ \E path \in PutPaths, contents \in Payloads, now \in Times :
          PutFile(1, path, contents, now)
  \/ /\ ~NodeStarting(1)
     /\ \E path \in GetPaths : GetFile(1, path)

SpecFile == InitFile /\ [][NextFile]_vars

\* A put_file that returned, followed by a get_file of the same path on the
\* same node.
PutThenGet ==
  /\ fs.put # NoValue
  /\ fs.got # NoValue
  /\ fs.put[1].error = ""
  /\ fs.got[1].path = fs.put[1].path
  /\ fs.got[1].node = fs.put[1].node

\* The bytes a payload stands for.
PayloadBytes(p) == IF p.kind = "str" THEN Utf8Encode(p.data).bytes ELSE p.data

\* C8, as stated: put_file followed by get_file of the same path returns
\* the content that was put, byte for byte, for every text payload and
\* every binary payload.
C8_Original ==
  PutThenGet =>
    /\ fs.got[1].error = ""
    /\ PayloadBytes(fs.got[1].value) = PayloadBytes(fs.put[1].contents)

\* C8, amended: get_file returns text.  After a put_file of a text payload
\* it returns exactly the text that was put.  After a put_file of a binary
\* payload that is valid UTF-8 it returns the text the bytes decode to,
\* whose encoding is the bytes that were put; after a binary payload that
\* is not valid UTF-8 it raises a UnicodeDecodeError.
C8_RoundTrip ==
  PutThenGet =>
    LET put == fs.put[1].contents
        got == fs.got[1]
    IN IF put.kind = "str"
         THEN got.error = "" /\ got.value = put
         ELSE IF Utf8Decode(put.data).ok
           THEN /\ got.error = ""
                /\ got.value.kind = "str"
                /\ Utf8Encode(got.value.data) = [ok |-> TRUE, bytes |-> put.data]
           ELSE got.error = "UnicodeDecodeError" /\ got.value = NoPayload

\* The two bytes of U+00E9 were put and the one character came back.
C8_Witness ==
  /\ PutThenGet
  /\ fs.put[1].contents = BytesPayload(<<195, 169>>)
  /\ fs.got[1].value = StrPayload(<<233>>)

(***************************************************************************)
(* SpecOptions: one cluster of two nodes, constructed and started once,    *)
(* for every value of pull_images, update_etc_hosts and                    *)
(* pre_start_callback.                                                     *)
(***************************************************************************)
InitOptions ==
  /\ InitRuntime
  /\ InitObjects
  /\ images = {"img"}
  /\ hostenv \in {[darwin |-> FALSE, in_docker |-> FALSE],
                  [darwin |-> TRUE, in_docker |-> FALSE],
                  [darwin |-> FALSE, in_docker |-> TRUE]}
  /\ node = [n \in NodeIds |->
       IF n = 1 THEN SimpleNode(<<"a">>, "g1")
                ELSE NodeInit(<<"b">>, "g2", "img", <<>>, <<>>)]
  /\ ex = NoExec
  /\ fs = NoFs

NextOptions ==
  \/ ClusterInit(1, <<1, 2>>, NoValue)
  \/ /\ cluster[1].starts = 0
     /\ \E pull_images \in BOOLEAN, update_etc_hosts \in BOOLEAN,
           pre_start_callback \in Callbacks :
          ClusterStart(1, <<"c">>, pull_images, update_etc_hosts,
                       pre_start_callback)
  \/ ClusterRun(1)
  \/ \E n \in NodeIds : NodeStep(n)

SpecOptions == InitOptions /\ [][NextOptions]_vars

Callable(cb) == cb \in {"returns", "raises"}

\* C11: a callable pre_start_callback is invoked once in each node's start,
\* with the id of the container just created for that node and the node,
\* while that container is created and not started; the start request is
\* issued only after the callback has returned, and never when it raised.
C11_CallbackOnce ==
  [][\A n \in NodeIds :
       LET f == nst[n]
           g == nst'[n]
       IN Callable(f.callback) =>
            /\ (g.starts = f.starts /\ g.cb_calls # f.cb_calls) =>
                 /\ f.pc = "callback"
                 /\ f.cb_calls = <<>>
                 /\ g.cb_calls = << <<f.container_id, n>> >>
                 /\ f.container_id \in DOMAIN containers
                 /\ containers[f.container_id].kind = "node"
                 /\ containers[f.container_id].aliases = <<node[n].hostname>>
                 /\ containers[f.container_id].state = "created"
                 /\ containers' = containers
            /\ (f.pc = "callback" /\ g # f) => Len(g.cb_calls) = 1
            /\ (f.pc = "callback" /\ g.pc = "failed") => f.callback = "raises"
            /\ (f.container_id # 0 /\ g.starts = f.starts
                /\ containers'[f.container_id] # containers[f.container_id]) =>
                 /\ f.callback = "returns"
                 /\ f.cb_calls = << <<f.container_id, n>> >>
            /\ (f.callback = "raises" /\ f.pc = "failed" /\ g.starts = f.starts) =>
                 /\ g = f
                 /\ f.container_id # 0 =>
                      containers'[f.container_id].state = "created"]_vars

\* Both nodes of the cluster are started, each after one call of the
\* callback with its own container.
C11_Witness ==
  /\ cluster[1].pc = "done"
  /\ cluster[1].pre_start_callback = "returns"
  /\ \A n \in {1, 2} :
       /\ nst[n].pc = "established"
       /\ nst[n].cb_calls = << <<nst[n].container_id, n>> >>
       /\ containers[nst[n].container_id].state = "running"
  /\ nst[1].container_id # nst[2].container_id

\* C12, as stated: a start given a callback that is not callable fails with
\* a type error, and the start request for the container is never issued.
C12_Original ==
  \A n \in NodeIds :
    (nst[n].callback \in {"noncallable", "falsy"} /\ nst[n].container_id # 0) =>
      /\ containers[nst[n].container_id].state = "created"
      /\ nst[n].pc \in {"callback", "failed"}
      /\ nst[n].pc = "failed" => nst[n].error = "TypeError"

\* C17, as stated: a Cluster.start called with update_etc_hosts=False
\* appends no entry to the host's /etc/hosts.
C17_Original ==
  (cluster[1].starts > 0 /\ ~cluster[1].update_etc_hosts) => etc_hosts = <<>>

\* The node whose start the loop of Cluster.start is at.
CurrentNode(c) == cluster[c].nodes[cluster[c].idx]

\* C13: a container that does not report Running makes the wait of
\* Node.start fail with TimeoutError, at once and for good: ip_address and
\* host_ports are not set, no command is executed in the container and no
\* /etc/hosts entry is appended; the error leaves Cluster.start and no
\* other node of the cluster is started.
C13_RunningTimeoutFatal ==
  [][/\ \A n \in NodeIds :
          LET f == nst[n]
              g == nst'[n]
          IN /\ (/\ f.pc = "wait_running"
                 /\ containers[f.container_id].state # "running"
                 /\ g # f) =>
                   /\ g.pc = "failed"
                   /\ g.error = "TimeoutError"
                   /\ g.calls = f.calls
                   /\ nrt'[n].ip_address = nrt[n].ip_address
                   /\ nrt'[n].host_ports = nrt[n].host_ports
                   /\ etc_hosts' = etc_hosts
                   /\ containers' = containers
             /\ (/\ f.pc = "failed"
                 /\ f.error = "TimeoutError"
                 /\ g.starts = f.starts) =>
                   /\ g = f
                   /\ nrt'[n] = nrt[n]
                   /\ f.which_sshd = NoValue =>
                        /\ "exec" \notin Range(f.calls)
                        /\ "run" \notin Range(f.calls)
     /\ \A c \in ClusterIds :
          /\ (/\ cluster[c].pc = "in_node"
              /\ nst[CurrentNode(c)].pc = "failed"
              /\ cluster'[c] # cluster[c]) =>
                /\ cluster'[c].pc = "failed"
                /\ cluster'[c].error = nst[CurrentNode(c)].error
                /\ nst' = nst
          /\ (/\ cluster[c].pc = "failed"
              /\ cluster'[c].starts = cluster[c].starts) =>
                \A n \in Range(cluster[c].nodes) : nst'[n] = nst[n]]_vars

\* The first of two nodes timed out waiting for Running: the cluster's
\* start has failed with the timeout and the second node was not started.
C13_Witness ==
  \E c \in ClusterIds :
    /\ cluster[c].pc = "failed"
    /\ cluster[c].error = "TimeoutError"
    /\ cluster[c].idx = 1
    /\ Len(cluster[c].nodes) = 2
    /\ nst[cluster[c].nodes[1]].which_sshd = NoValue
    /\ nrt[cluster[c].nodes[1]].container # NoValue
    /\ nrt[cluster[c].nodes[1]].ip_address = NoValue
    /\ nrt[cluster[c].nodes[1]].host_ports = NoValue
    /\ nst[cluster[c].nodes[2]].starts = 0
    /\ etc_hosts = <<>>

\* C18, as stated: every network and every container created during a
\* Cluster.start carries the management label.
C18_Original ==
  /\ \A i \in DOMAIN networks : networks[i].labels # <<>>
  /\ \A i \in DOMAIN containers : containers[i].labels # <<>>

\* C18, amended: the network a Cluster.start creates, every node container
\* and every volumes-from container carry the management label with the
\* name of the cluster whose start created them, so a cluster is among the
\* active clusters from its first such container on; the /etc/hosts helper
\* container carries no label and is removed when it has run.
C18_Labels ==
  /\ \A i \in DOMAIN networks :
       \E c \in ClusterIds :
         /\ cluster[c].starts > 0
         /\ networks[i].labels = ClusterdockLabels(cluster[c].name)
  /\ \A i \in DOMAIN containers :
       IF containers[i].kind = "etc_hosts"
         THEN containers[i].labels = <<>> /\ containers[i].state = "removed"
         ELSE \E c \in ClusterIds :
                /\ cluster[c].starts > 0
                /\ containers[i].labels = ClusterdockLabels(cluster[c].name)
  /\ \A c \in ClusterIds :
       \A n \in Range(cluster[c].nodes) :
         LET own == Range(nst[n].volumes_from)
                      \cup (IF nst[n].container_id = 0
                              THEN {} ELSE {nst[n].container_id})
         IN /\ \A i \in own :
                 containers[i].labels = ClusterdockLabels(cluster[c].name)
            /\ own # {} => cluster[c].name \in ActiveClusterNames

\* A start that has created a volumes-from container, a node container
\* and a helper container.
C18_Witness ==
  \E i, j, k \in DOMAIN containers :
    /\ containers[i].kind = "volumes_from"
    /\ containers[j].kind = "node"
    /\ containers[k].kind = "etc_hosts"
    /\ i < j /\ j < k

\* C20: no step of Cluster.start stops or removes a container or removes a
\* network; the step in which a node's failure leaves Cluster.start
\* changes nothing in the runtime, and the nodes after the failed one are
\* not started.
C20_NoRollback ==
  [][/\ Len(containers') >= Len(containers)
     /\ \A i \in DOMAIN containers :
          /\ containers'[i].state # containers[i].state =>
               /\ containers[i].state = "created"
               /\ containers'[i].state \in {"running", "exited"}
          /\ containers'[i].network = containers[i].network
     /\ Len(networks') >= Len(networks)
     /\ SubSeq(networks', 1, Len(networks)) = networks
     /\ \A c \in ClusterIds :
          /\ (cluster[c].pc = "in_node" /\ cluster'[c].pc = "failed") =>
               /\ containers' = containers
               /\ networks' = networks
               /\ nst' = nst
               /\ nrt' = nrt
          /\ (cluster[c].pc = "failed" /\ cluster[c].idx >= 1) =>
               \A j \in DOMAIN cluster[c].nodes :
                 j > cluster[c].idx =>
                   /\ nst[cluster[c].nodes[j]].starts = 0
                   /\ nst[cluster[c].nodes[j]].container_id = 0
                   /\ nrt[cluster[c].nodes[j]].container = NoValue]_vars

\* The second of two nodes failed after its container was created: the
\* first node's container is running, the second's is in place, and so is
\* the network.
C20_Witness ==
  \E c \in ClusterIds :
    /\ cluster[c].pc = "failed"
    /\ cluster[c].idx = 2
    /\ nrt[cluster[c].nodes[1]].container # NoValue
    /\ containers[nrt[cluster[c].nodes[1]].container[1]].state = "running"
    /\ nst[cluster[c].nodes[2]].container_id # 0
    /\ containers[nst[cluster[c].nodes[2]].container_id].state
         \in {"created", "exited"}
    /\ NetworkExists(cluster[c].network[1])

(***************************************************************************)
(* SpecRace: two programs using the same runtime, each constructing a      *)
(* Cluster and starting it on the same network, their steps interleaved.   *)
(* The first program's cluster has node 1, the second's node 3; both nodes *)
(* have the hostname a.                                                    *)
(***************************************************************************)
RaceNodes(c) == IF c = 1 THEN <<1>> ELSE <<3>>

InitRace ==
  /\ InitRuntime
  /\ InitObjects
  /\ images = {"img"}
  /\ hostenv = [darwin |-> FALSE, in_docker |-> TRUE]
  /\ node = [n \in NodeIds |-> SimpleNode(<<"a">>, "g1")]
  /\ ex = NoExec
  /\ fs = NoFs

NextRace ==
  \/ \E c \in ClusterIds, cluster_name \in {NoValue, Some("cl1")} :
       ClusterInit(c, RaceNodes(c), cluster_name)
  \/ \E c \in ClusterIds :
       /\ cluster[c].starts = 0
       /\ ClusterStart(c, <<"c">>, FALSE, TRUE, "None")
  \/ \E c \in ClusterIds : ClusterRun(c)
  \/ \E n \in NodeIds : NodeStep(n)

SpecRace == InitRace /\ [][NextRace]_vars

\* C21: the duplicate-hostname guard and the duplicate-name guard are each
\* evaluated against what was read earlier, not atomically with the
\* creations that follow.  A start passes the guard exactly when none of
\* the containers that were attached when it set the network up is aliased
\* to a hostname of its nodes, whatever has been attached since; a
\* constructor with an explicit name passes exactly when no container
\* carries that name at that moment, whatever other Cluster objects hold it.
C21_GuardsNotAtomic ==
  [][\A c \in ClusterIds :
       /\ (cluster[c].pc = "check" /\ cluster'[c].pc # "check") =>
            /\ \A id \in Range(cluster[c].the_network[1].containers) :
                 containers[id].network = cluster[c].network[1]
            /\ cluster'[c].pc = "nodes" <=>
                 \A id \in Range(cluster[c].the_network[1].containers) :
                   \A n \in Range(cluster[c].nodes) :
                     node[n].hostname \notin Range(containers[id].aliases)
            /\ cluster'[c].pc # "nodes" =>
                 /\ cluster'[c].pc = "failed"
                 /\ cluster'[c].error = "DuplicateHostnamesError"
       /\ (cluster[c].pc = "new" /\ cluster'[c].pc # "new"
           /\ cluster'[c].requested # NoValue) =>
            (cluster'[c].pc = "constructed" <=>
               \A i \in DOMAIN containers :
                 (containers[i].state # "removed" /\ containers[i].labels # <<>>)
                   => containers[i].labels[1] # cluster'[c].requested[1])]_vars

\* Both programs constructed a Cluster named cl1, both starts passed the
\* guard, and the network has two containers aliased a, one of each.
C21_Witness ==
  /\ \A c \in ClusterIds :
       /\ cluster[c].requested = Some("cl1")
       /\ cluster[c].name = "cl1"
       /\ cluster[c].pc \in {"in_node", "nodes", "done"}
       /\ cluster[c].error = ""
  /\ \E i, j \in DOMAIN containers :
       /\ i # j
       /\ containers[i].network = <<"c">>
       /\ containers[j].network = <<"c">>
       /\ containers[i].state # "removed"
       /\ containers[j].state # "removed"
       /\ <<"a">> \in Range(containers[i].aliases)
       /\ <<"a">> \in Range(containers[j].aliases)
       /\ nst[1].container_id = i
       /\ nst[3].container_id = j

\* C23: _setup_network fetches the existing network only when the creation
\* failed with 'network with name <name> already exists' for the requested
\* name.  Any other error of the creation leaves Cluster.start as an
\* APIError: the network is not fetched, no handle is held, and until the
\* next start call the duplicate-hostname check is not run and none of the
\* cluster's nodes is started.
C23_NetworkErrorPropagates ==
  [][\A c \in ClusterIds :
       /\ cluster'[c].starts # cluster[c].starts =>
            LET name == cluster'[c].network[1] IN
              /\ nst' = nst
              /\ containers' = containers
              /\ IF faults' # faults
                   THEN /\ cluster'[c].pc = "failed"
                        /\ cluster'[c].error = "APIError"
                        /\ cluster'[c].explanation # <<>>
                        /\ cluster'[c].explanation # AlreadyExists(name)
                        /\ ~cluster'[c].fetched
                        /\ cluster'[c].the_network = NoValue
                        /\ networks' = networks
                   ELSE /\ cluster'[c].pc = "check"
                        /\ cluster'[c].explanation = <<>>
                        /\ cluster'[c].fetched <=> NetworkExists(name)
                        /\ cluster'[c].fetched => networks' = networks
       /\ (/\ cluster[c].pc = "failed"
           /\ cluster[c].the_network = NoValue
           /\ cluster'[c].starts = cluster[c].starts) =>
            /\ cluster'[c] = cluster[c]
            /\ \A j \in DOMAIN cluster[c].nodes :
                 nst'[cluster[c].nodes[j]] = nst[cluster[c].nodes[j]]]_vars

\* A start whose network creation met a server error although a network of
\* the requested name exists, with containers attached to it.
C23_Witness ==
  \E c \in ClusterIds :
    /\ cluster[c].pc = "failed"
    /\ cluster[c].error = "APIError"
    /\ cluster[c].explanation = <<"server error">>
    /\ ~cluster[c].fetched
    /\ cluster[c].the_network = NoValue
    /\ NetworkExists(cluster[c].network[1])
    /\ Len(NetworkContainers(cluster[c].network[1])) > 0

(***************************************************************************)
(* SpecDefaults: Node.start called, one call at a time and up to MaxStarts *)
(* times each, on two nodes that declare different volumes.                *)
(***************************************************************************)
InitDefaults ==
  /\ InitRuntime
  /\ InitObjects
  /\ images = {"img"}
  /\ hostenv = [darwin |-> FALSE, in_docker |-> TRUE]
  /\ node = [n \in NodeIds |->
       IF n = 1
         THEN NodeInit(<<"a">>, "g1", "img", <<PDict(9000, 8080)>>,
                       <<VDict("/host", "/cont"), VStr("vimg")>>)
         ELSE NodeInit(<<"b">>, "g1", "img", <<>>,
                       <<VList("vol1", "vol2")>>)]
  /\ ex = NoExec
  /\ fs = NoFs

NextDefaults ==
  \/ \E n \in {1, 2}, pull_images \in BOOLEAN :
       /\ \A m \in NodeIds : ~NodeStarting(m)
       /\ NodeStartBegin(n, <<"c">>, "None", pull_images, "None")
       /\ UNCHANGED <<cluster, ex, fs>>
  \/ \E n \in NodeIds : NodeStep(n)

SpecDefaults == InitDefaults /\ [][NextDefaults]_vars

\* The volumes and the binds that a node's declared volumes list asks for.
RECURSIVE DeclaredVolumes(_)
DeclaredVolumes(volumes) ==
  IF volumes = <<>> THEN <<>>
  ELSE LET volume == Head(volumes) IN
    (CASE volume.t = "list" -> ListItems(volume)
       [] volume.t = "dict" -> <<volume.b>>
       [] OTHER -> <<>>) \o DeclaredVolumes(Tail(volumes))

DeclaredBinds(volumes) ==
  [h \in {volumes[i].a : i \in {k \in DOMAIN volumes : volumes[k].t = "dict"}}
     |-> volumes[CHOOSE i \in DOMAIN volumes :
                   /\ volumes[i].t = "dict" /\ volumes[i].a = h
                   /\ \A k \in DOMAIN volumes :
                        (volumes[k].t = "dict" /\ volumes[k].a = h) => k <= i].b]

\* C24: Node.start changes neither the class-level defaults nor the declared
\* fields of any node.  Every start begins from the defaults as they were
\* declared, and the container it creates has the localtime volume and bind
\* followed by the volumes and binds of that node's own volumes list, and
\* one volumes-from container for each image named in it: nothing from an
\* earlier start of this node or of another.
C24_StartKeepsDefaults ==
  [][/\ node' = node
     /\ NodeClass' = NodeClass
     /\ NodeClass.DEFAULT_CREATE_CONTAINER_KWARGS.volumes = <<>>
     /\ \A n \in NodeIds :
          /\ nst'[n].starts # nst[n].starts =>
               /\ nst'[n].cc_volumes =
                    IF LOCALTIME_MOUNT THEN <<"/etc/localtime">> ELSE <<>>
               /\ nst'[n].volumes = <<>>
               /\ nst'[n].volumes_from = <<>>
               /\ nst'[n].binds = EmptyDict
          /\ (nst[n].pc = "create" /\ nst'[n].container_id # 0) =>
               LET k == containers'[nst'[n].container_id] IN
                 /\ k.volumes = <<"/etc/localtime">>
                                  \o DeclaredVolumes(node[n].volumes)
                 /\ k.binds = DictUpdate(
                      DictSet(EmptyDict, "/cfg/localtime", "/etc/localtime"),
                      DeclaredBinds(node[n].volumes))
                 /\ Len(k.volumes_from) =
                      Cardinality({i \in DOMAIN node[n].volumes :
                                     node[n].volumes[i].t = "str"})
                 /\ \A i \in DOMAIN k.volumes_from :
                      /\ containers[k.volumes_from[i]].kind = "volumes_from"
                      /\ \E v \in DOMAIN node[n].volumes :
                           /\ node[n].volumes[v].t = "str"
                           /\ node[n].volumes[v].a =
                                containers[k.volumes_from[i]].image
                      /\ \A j \in DOMAIN containers :
                           k.volumes_from[i]
                             \notin Range(containers[j].volumes_from)]_vars

\* Node a has been started twice and node b in between: the container of
\* a's second start has the volumes of a's list only, b's container those
\* of b's.
C24_Witness ==
  /\ nst[1].starts = 2
  /\ nst[2].starts = 1
  /\ nst[1].container_id > nst[2].container_id
  /\ nst[2].container_id > 2
  /\ containers[nst[1].container_id].volumes = <<"/etc/localtime", "/cont">>
  /\ containers[nst[2].container_id].volumes =
       <<"/etc/localtime", "vol1", "vol2">>

====
